---------------------------- MODULE Spec2Model ----------------------------
(***************************************************************************)
(* A model of basepy/schedule.py: the in-process periodic job scheduler.   *)
(*                                                                         *)
(* Time is a natural number of clock units.  The clock advances between    *)
(* calls of the scheduler's API (Tick), while a job's work executes (the   *)
(* work's duration); run_all() is called with its default delay of 0, so   *)
(* its sleep takes no time.  Consecutive reads of                          *)
(* datetime.now() with no work in between read the same instant in run()   *)
(* and do(); until() reads the clock to resolve a relative deadline and    *)
(* again to compare it, and the clock may advance between the two reads.   *)
(*                                                                         *)
(* The configuration calls (every, tag, at, until, do) and the registry    *)
(* calls (clear, cancel_job, get_jobs) have specifications of their own,   *)
(* on two Scheduler objects and on jobs built with and without one.        *)
(*                                                                         *)
(* run_pending() and run_all() are modelled by the position of their loop: *)
(* the call starts (the batch is computed), runs the jobs of the batch one *)
(* _run_job() at a time, and returns.  The work of a job is opaque: each   *)
(* invocation chooses its duration, what it returns or whether it raises,  *)
(* and whether it calls cancel_job() on the scheduler meanwhile.           *)
(***************************************************************************)
EXTENDS Integers, Sequences, FiniteSets, TLC

\* ------------------------------------------------------------------ bounds
\* The jobs of the polling specification (SpecPoll), and the clock's horizon.
NumJobs == 3
MaxTime == 3

JobIds == 1..NumJobs
\* The jobs the specification of the whole API (Spec) builds.
ApiJobs == {1, 2}
\* every()'s periods, at()'s offsets, until()'s deadlines and the durations
\* of a work, in clock units.
Periods == {1, 2}
AtTimes == {1}
Deadlines == {2}
WorkTimes == {0, 1}

\* An absent (None) timestamp or offset; timestamps and offsets are >= 0.
None == -1

\* What a work returns; "raise" stands for a work that raises instead.
CancelSignals == {"CancelJobClass", "CancelJobInstance"}
WorkReturns == {"None"} \cup CancelSignals
WorkOutcomes == WorkReturns \cup {"raise"}

\* What a work does to the scheduler while it executes.
NoEffect == [op |-> "none", arg |-> 0]
WorkEffects ==
    {NoEffect} \cup {[op |-> "cancel_job", arg |-> k] : k \in ApiJobs}

VARIABLES
    now,        \* datetime.datetime.now()
    jobs,       \* Scheduler.jobs: the list of registered jobs
    job,        \* the Job objects' fields, by job
    mode,       \* "idle", or the call in progress: "run_pending" / "run_all"
    batch,      \* the jobs the loop of the call in progress still has to run
    exc,        \* an exception of a work is propagating out of the call
    startNow,   \* the clock at the start of the call in progress
    startJobs,  \* Scheduler.jobs at the start of the call in progress
    startJob,   \* the jobs' fields at the start of the call in progress
    ran,        \* the run() calls of the call in progress: job, work invoked
    last,       \* the last _run_job of the call in progress, or NoRun
    other_jobs, \* the jobs list of a second Scheduler object
    call,       \* the last configuration or registry call, or NoCall
    returned,   \* the list the last get_jobs() returned, as its caller holds it
    drivers     \* the run_pending() calls of two driver threads: see NoDrivers

vars ==
    <<now, jobs, job, mode, batch, exc, startNow, startJobs, startJob,
      ran, last, other_jobs, call, returned, drivers>>

\* ------------------------------------------------------------ Job, helpers

\* Job.__init__: a job that does not exist yet has created = FALSE.
NoJob ==
    [created |-> FALSE, period |-> None, at_day |-> None, at_time |-> None,
     last_run |-> None, next_run |-> None, cancel_after |-> None,
     job_func |-> FALSE, tags |-> {}, scheduler |-> None]

\* Job(interval, scheduler); scheduler is None, 1 (the module's default
\* Scheduler object) or 2 (a second Scheduler object).
JobInit(interval, sch) ==
    [NoJob EXCEPT !.created = TRUE, !.period = interval, !.scheduler = sch]

\* Job(interval, self), as the default scheduler's every() makes it.
NewJob(interval) ==
    JobInit(interval, 1)

\* A scheduling that leaves the job due at once.
schedule_next_run_at_once(jr, t) ==
    [jr EXCEPT !.next_run = t]

\* An at_offset that forgets at_time.
at_offset_no_time(jr) ==
    IF jr.at_day = None THEN 0 ELSE jr.at_day

\* Job.at_offset
at_offset(jr) ==
    (IF jr.at_day = None THEN 0 ELSE jr.at_day)
        + (IF jr.at_time = None THEN 0 ELSE jr.at_time)

\* A _schedule_next_run that counts from the previous next_run, catching up
\* on missed occurrences.
schedule_next_run_catch_up(jr, t) ==
    [jr EXCEPT !.next_run =
        (IF jr.next_run = None THEN t ELSE jr.next_run)
            + jr.period
            + (IF jr.at_time = None THEN 0 ELSE jr.at_time)]

\* Job._schedule_next_run, at clock value t
schedule_next_run(jr, t) ==
    [jr EXCEPT !.next_run = t + jr.period + at_offset(jr)]

\* An _is_overdue with the comparison the wrong way round.
is_overdue_reversed(jr, when) ==
    jr.cancel_after # None /\ when < jr.cancel_after

\* A job that is never overdue.
is_overdue_never(jr, when) ==
    FALSE

\* Job._is_overdue
is_overdue(jr, when) ==
    jr.cancel_after # None /\ when > jr.cancel_after

\* A should_run that misses the job whose next_run is now.
should_run_strict(jr, t) ==
    t > jr.next_run

\* Job.should_run, at clock value t
should_run(jr, t) ==
    t >= jr.next_run

\* Job.__lt__
lt(a, b) ==
    job[a].next_run < job[b].next_run

\* A removal that takes the first job whose fields equal the given job's.
RECURSIVE Remove_equal_fields(_, _)
Remove_equal_fields(s, j) ==
    IF s = <<>> THEN <<>>
    ELSE IF job[Head(s)] = job[j] THEN Tail(s)
    ELSE <<Head(s)>> \o Remove_equal_fields(Tail(s), j)

\* list.remove inside cancel_job's try/except: the first occurrence goes,
\* and a job that is not in the list leaves it as it is.
RECURSIVE Remove(_, _)
Remove(s, j) ==
    IF s = <<>> THEN <<>>
    ELSE IF Head(s) = j THEN Tail(s)
    ELSE <<Head(s)>> \o Remove(Tail(s), j)

\* A cancel_job that takes out the job and every job behind it.
RECURSIVE cancel_job_truncates(_, _)
cancel_job_truncates(s, j) ==
    IF s = <<>> THEN <<>>
    ELSE IF Head(s) = j THEN <<>>
    ELSE <<Head(s)>> \o cancel_job_truncates(Tail(s), j)

\* Scheduler.cancel_job
cancel_job(s, j) ==
    Remove(s, j)

\* Scheduler.clear() with no tag
clear(s) ==
    <<>>

InSeq(s, j) ==
    \E i \in 1..Len(s) : s[i] = j

\* A sort that is not stable: x goes before the elements equal to it.
RECURSIVE InsertSorted_unstable(_, _)
InsertSorted_unstable(s, x) ==
    IF s = <<>> THEN <<x>>
    ELSE IF ~lt(Head(s), x) THEN <<x>> \o s
    ELSE <<Head(s)>> \o InsertSorted_unstable(Tail(s), x)

\* sorted(): a stable sort that compares with __lt__ only.  x goes after
\* every element that is not greater than it.
RECURSIVE InsertSorted(_, _)
InsertSorted(s, x) ==
    IF s = <<>> THEN <<x>>
    ELSE IF lt(x, Head(s)) THEN <<x>> \o s
    ELSE <<Head(s)>> \o InsertSorted(Tail(s), x)

RECURSIVE sorted(_)
sorted(s) ==
    IF s = <<>> THEN <<>>
    ELSE InsertSorted(sorted(SubSeq(s, 1, Len(s) - 1)), s[Len(s)])

\* run_pending's generator: the registered jobs that should run now
runnable_jobs ==
    SelectSeq(jobs, LAMBDA j : should_run(job[j], now))

\* A minimum that looks at the first job only.
min_first(s) ==
    Head(s)

\* The builtin min() over a non-empty list of jobs: it keeps the first job
\* and replaces it by a later one only when that one is less (__lt__).
RECURSIVE min_from(_, _)
min_from(best, s) ==
    IF s = <<>> THEN best
    ELSE min_from(IF lt(Head(s), best) THEN Head(s) ELSE best, Tail(s))

min(s) ==
    min_from(Head(s), Tail(s))

\* Scheduler.next_run (the property), over the list s
next_run(s) ==
    IF s = <<>> THEN None
    ELSE job[min(s)].next_run

\* An idle time counted from the next run back to the clock.
idle_seconds_reversed(s, t) ==
    IF next_run(s) = None THEN [absent |-> TRUE, seconds |-> 0]
    ELSE [absent |-> FALSE, seconds |-> t - next_run(s)]

\* Scheduler.idle_seconds (the property), over the list s at clock value t.
\* The result is None (absent) or a number of seconds, which may be
\* negative.
idle_seconds(s, t) ==
    IF next_run(s) = None THEN [absent |-> TRUE, seconds |-> 0]
    ELSE [absent |-> FALSE, seconds |-> next_run(s) - t]

\* A test of the signal that forgets the instances of CancelJob.
is_cancel_class_only(ret) ==
    ret = "CancelJobClass"

\* The cancellation signal, as _run_job tests it
is_cancel(ret) ==
    ret \in CancelSignals

\* A run without the deadline check on entry.
run_no_entry_check(jr, t, d, w) ==
    IF w = "raise"
    THEN [job |-> jr, ret |-> "raise", invoked |-> TRUE,
          raised |-> TRUE, clock |-> t + d]
    ELSE LET done == [jr EXCEPT !.last_run = t + d,
                                !.next_run = t + d + jr.period
                                    + (IF jr.at_time = None THEN 0 ELSE jr.at_time)]
         IN  [job |-> done,
              ret |-> IF jr.cancel_after # None /\ done.next_run > jr.cancel_after
                      THEN "CancelJobClass" ELSE w,
              invoked |-> TRUE, raised |-> FALSE, clock |-> t + d]

\* A run without the deadline check after the work.
run_no_second_check(jr, t, d, w) ==
    IF jr.cancel_after # None /\ t > jr.cancel_after
    THEN [job |-> jr, ret |-> "CancelJobClass", invoked |-> FALSE,
          raised |-> FALSE, clock |-> t]
    ELSE IF w = "raise"
    THEN [job |-> jr, ret |-> "raise", invoked |-> TRUE,
          raised |-> TRUE, clock |-> t + d]
    ELSE [job |-> [jr EXCEPT !.last_run = t + d,
                             !.next_run = t + d + jr.period
                                 + (IF jr.at_time = None THEN 0 ELSE jr.at_time)],
          ret |-> w, invoked |-> TRUE, raised |-> FALSE, clock |-> t + d]

\* A run that returns the CancelJob class whenever the work returns a signal,
\* whatever the work returned.
run_normalises_signal(jr, t, d, w) ==
    IF jr.cancel_after # None /\ t > jr.cancel_after
    THEN [job |-> jr, ret |-> "CancelJobClass", invoked |-> FALSE,
          raised |-> FALSE, clock |-> t]
    ELSE IF w = "raise"
    THEN [job |-> jr, ret |-> "raise", invoked |-> TRUE,
          raised |-> TRUE, clock |-> t + d]
    ELSE [job |-> [jr EXCEPT !.last_run = t + d,
                             !.next_run = t + d + jr.period
                                 + (IF jr.at_time = None THEN 0 ELSE jr.at_time)],
          ret |-> IF (jr.cancel_after # None
                        /\ t + d + jr.period
                              + (IF jr.at_time = None THEN 0 ELSE jr.at_time)
                                > jr.cancel_after)
                     \/ w \in {"CancelJobClass", "CancelJobInstance"}
                  THEN "CancelJobClass" ELSE w,
          invoked |-> TRUE, raised |-> FALSE, clock |-> t + d]

\* A run that catches what the work raises and returns None.
run_catches(jr, t, d, w) ==
    IF jr.cancel_after # None /\ t > jr.cancel_after
    THEN [job |-> jr, ret |-> "CancelJobClass", invoked |-> FALSE,
          raised |-> FALSE, clock |-> t]
    ELSE LET done == [jr EXCEPT !.last_run = t + d,
                                !.next_run = t + d + jr.period
                                    + (IF jr.at_time = None THEN 0 ELSE jr.at_time)]
         IN  [job |-> done,
              ret |-> IF jr.cancel_after # None /\ done.next_run > jr.cancel_after
                      THEN "CancelJobClass"
                      ELSE IF w = "raise" THEN "None" ELSE w,
              invoked |-> TRUE, raised |-> FALSE, clock |-> t + d]

\* A run that records the run and schedules the next one before it lets the
\* work's exception out.
run_reschedules_on_raise(jr, t, d, w) ==
    IF jr.cancel_after # None /\ t > jr.cancel_after
    THEN [job |-> jr, ret |-> "CancelJobClass", invoked |-> FALSE,
          raised |-> FALSE, clock |-> t]
    ELSE LET done == [jr EXCEPT !.last_run = t + d,
                                !.next_run = t + d + jr.period
                                    + (IF jr.at_time = None THEN 0 ELSE jr.at_time)]
         IN  IF w = "raise"
             THEN [job |-> done, ret |-> "raise", invoked |-> TRUE,
                   raised |-> TRUE, clock |-> t + d]
             ELSE [job |-> done,
                   ret |-> IF jr.cancel_after # None /\ done.next_run > jr.cancel_after
                           THEN "CancelJobClass" ELSE w,
                   invoked |-> TRUE, raised |-> FALSE, clock |-> t + d]

\* A run that keeps no last_run.
run_forgets_last_run(jr, t, d, w) ==
    IF jr.cancel_after # None /\ t > jr.cancel_after
    THEN [job |-> jr, ret |-> "CancelJobClass", invoked |-> FALSE,
          raised |-> FALSE, clock |-> t]
    ELSE IF w = "raise"
    THEN [job |-> jr, ret |-> "raise", invoked |-> TRUE,
          raised |-> TRUE, clock |-> t + d]
    ELSE LET done == [jr EXCEPT !.next_run = t + d + jr.period
                                    + (IF jr.at_time = None THEN 0 ELSE jr.at_time)]
         IN  [job |-> done,
              ret |-> IF jr.cancel_after # None /\ done.next_run > jr.cancel_after
                      THEN "CancelJobClass" ELSE w,
              invoked |-> TRUE, raised |-> FALSE, clock |-> t + d]

\* A run that records a last_run for the run it skips.
run_records_skipped(jr, t, d, w) ==
    IF jr.cancel_after # None /\ t > jr.cancel_after
    THEN [job |-> [jr EXCEPT !.last_run = t], ret |-> "CancelJobClass",
          invoked |-> FALSE, raised |-> FALSE, clock |-> t]
    ELSE IF w = "raise"
    THEN [job |-> jr, ret |-> "raise", invoked |-> TRUE,
          raised |-> TRUE, clock |-> t + d]
    ELSE LET done == [jr EXCEPT !.last_run = t + d,
                                !.next_run = t + d + jr.period
                                    + (IF jr.at_time = None THEN 0 ELSE jr.at_time)]
         IN  [job |-> done,
              ret |-> IF jr.cancel_after # None /\ done.next_run > jr.cancel_after
                      THEN "CancelJobClass" ELSE w,
              invoked |-> TRUE, raised |-> FALSE, clock |-> t + d]

\* Job.run entered at clock value t; the work, if invoked, takes d and ends
\* with outcome w.  The result: the job's fields afterwards, what run()
\* returns, whether the work was invoked, whether it raised, and the clock.
run(jr, t, d, w) ==
    IF is_overdue(jr, t)
    THEN [job |-> jr, ret |-> "CancelJobClass", invoked |-> FALSE,
          raised |-> FALSE, clock |-> t]
    ELSE IF w = "raise"
    THEN [job |-> jr, ret |-> "raise", invoked |-> TRUE,
          raised |-> TRUE, clock |-> t + d]
    ELSE LET done == schedule_next_run([jr EXCEPT !.last_run = t + d], t + d)
         IN  [job |-> done,
              ret |-> IF is_overdue(done, done.next_run)
                      THEN "CancelJobClass" ELSE w,
              invoked |-> TRUE, raised |-> FALSE, clock |-> t + d]

\* What the work's calls on the scheduler leave of Scheduler.jobs
ApplyEffect(s, e) ==
    IF e.op = "cancel_job" THEN cancel_job(s, e.arg)
    ELSE s

\* What is recorded of one _run_job(j): the clock when run() was entered,
\* whether the work was invoked, what it returned ("raise" when it raised,
\* "not_invoked" when it was skipped), the clock when it ended, what run()
\* returned, and Scheduler.jobs as the work left it.
NoRun ==
    [id |-> 0, at |-> 0, invoked |-> FALSE, work |-> "not_invoked",
     done |-> 0, ret |-> "None", worked |-> <<>>]

\* What is recorded of one configuration or registry call: the operation,
\* the job and the argument it was called with, how it ended ("ok" or the
\* exception raised), what it returned, and the clock, the jobs' fields and
\* the two schedulers' lists as they were before it.
NoCall ==
    [op |-> "none", id |-> 0, arg |-> <<>>, outcome |-> "ok", ret |-> <<>>,
     now0 |-> 0, job0 |-> <<>>, jobs0 |-> <<>>, other0 |-> <<>>]

\* A list held by a caller: either Scheduler.jobs itself (the same object)
\* or a list of its own.
NoList ==
    [same_object |-> FALSE, list |-> <<>>]

\* The driver threads.
Drivers == {1, 2}

\* What is kept of the driver threads: for each, whether it is inside
\* run_pending() and the jobs its loop still has to run; and, since the
\* clock last advanced, whether two calls overlapped, the jobs the calls
\* selected, and how many times each job's work was invoked.
NoDrivers ==
    [active |-> [d \in Drivers |-> FALSE],
     batch |-> [d \in Drivers |-> <<>>],
     overlapped |-> FALSE,
     selected |-> {},
     invoked |-> [j \in JobIds |-> 0]]

\* ------------------------------------------------------------------- Init

Init ==
    /\ now = 0
    /\ jobs = <<>>
    /\ job = [j \in JobIds |-> NoJob]
    /\ mode = "idle"
    /\ batch = <<>>
    /\ exc = FALSE
    /\ startNow = 0
    /\ startJobs = <<>>
    /\ startJob = [j \in JobIds |-> NoJob]
    /\ ran = <<>>
    /\ last = NoRun
    /\ other_jobs = <<>>
    /\ call = NoCall
    /\ returned = NoList
    /\ drivers = NoDrivers

call_vars ==
    <<mode, batch, exc, startNow, startJobs, startJob, ran, last, drivers>>

api_vars ==
    <<other_jobs, call, returned>>

\* ------------------------------------------------- the caller, between calls

\* The clock advances.
Tick ==
    /\ mode = "idle"
    /\ now < MaxTime
    /\ now' = now + 1
    /\ UNCHANGED <<jobs, job, call_vars>>
    /\ UNCHANGED api_vars

\* Scheduler.every / every_s / every_delta: a new, unattached job.
Every(j, p) ==
    /\ mode = "idle"
    /\ ~job[j].created
    /\ \A k \in JobIds : k < j => job[k].job_func
    /\ job' = [job EXCEPT ![j] = NewJob(p)]
    /\ UNCHANGED <<now, jobs, call_vars>>
    /\ UNCHANGED api_vars

\* Job.at, with a the offset its string stands for.
At(j, a) ==
    /\ mode = "idle"
    /\ job[j].created
    /\ ~job[j].job_func
    /\ job' = [job EXCEPT ![j].at_time = a]
    /\ UNCHANGED <<now, jobs, call_vars>>
    /\ UNCHANGED api_vars

\* Job.until, with u the moment its argument resolves to.  cancel_after is
\* assigned before the deadline is compared with the clock, so a deadline
\* in the past is stored and the call then raises.
Until(j, u) ==
    /\ mode = "idle"
    /\ job[j].created
    /\ job' = [job EXCEPT ![j].cancel_after = u]
    /\ UNCHANGED <<now, jobs, call_vars>>
    /\ UNCHANGED api_vars

\* Job.do, the call that ends the builder chain of a job created by this
\* scheduler: the work is bound, next_run computed, the job appended.
Do(j) ==
    /\ mode = "idle"
    /\ job[j].created
    /\ ~job[j].job_func
    /\ job' = [job EXCEPT ![j] = schedule_next_run([@ EXCEPT !.job_func = TRUE], now)]
    /\ jobs' = Append(jobs, j)
    /\ UNCHANGED <<now, call_vars>>
    /\ UNCHANGED api_vars

\* Scheduler.cancel_job, called by the driver.
CancelJob(j) ==
    /\ mode = "idle"
    /\ job[j].job_func
    /\ jobs' = cancel_job(jobs, j)
    /\ UNCHANGED <<now, job, call_vars>>
    /\ UNCHANGED api_vars

\* Scheduler.clear(), called by the driver.
Clear ==
    /\ mode = "idle"
    /\ jobs # <<>>
    /\ jobs' = clear(jobs)
    /\ UNCHANGED <<now, job, call_vars>>
    /\ UNCHANGED api_vars

\* ------------------------------------------------ run_pending and run_all

StartCall(kind, todo) ==
    /\ mode = "idle"
    /\ mode' = kind
    /\ batch' = todo
    /\ exc' = FALSE
    /\ startNow' = now
    /\ startJobs' = jobs
    /\ startJob' = job
    /\ ran' = <<>>
    /\ last' = NoRun
    /\ UNCHANGED <<now, jobs, job, drivers>>
    /\ UNCHANGED api_vars

\* A run_pending that sorts Scheduler.jobs itself.
RunPending_sorts_in_place ==
    /\ mode = "idle"
    /\ mode' = "run_pending"
    /\ batch' = sorted(runnable_jobs)
    /\ jobs' = sorted(jobs)
    /\ exc' = FALSE
    /\ startNow' = now
    /\ startJobs' = jobs
    /\ startJob' = job
    /\ ran' = <<>>
    /\ last' = NoRun
    /\ UNCHANGED <<now, job, drivers>>
    /\ UNCHANGED api_vars

\* Scheduler.run_pending, up to its loop: the due jobs, sorted.
RunPending ==
    StartCall("run_pending", sorted(runnable_jobs))

\* A run_all that runs the due jobs only.
RunAll_due_only ==
    StartCall("run_all", sorted(runnable_jobs))

\* Scheduler.run_all() with its default delay_seconds = 0, up to its loop:
\* a copy of the list.
RunAll ==
    StartCall("run_all", jobs)

\* A loop that puts a job that is due again after its run back on its list.
RunJob_requeues(d, w, e) ==
    /\ mode # "idle"
    /\ ~exc
    /\ batch # <<>>
    /\ LET j == Head(batch)
           r == run(job[j], now, d, w)
           worked == IF r.invoked THEN ApplyEffect(jobs, e) ELSE jobs
       IN  /\ r.clock <= MaxTime
           /\ r.invoked \/ (d = 0 /\ w = "None" /\ e = NoEffect)
           /\ job' = [job EXCEPT ![j] = r.job]
           /\ jobs' = IF ~r.raised /\ is_cancel(r.ret)
                      THEN cancel_job(worked, j) ELSE worked
           /\ now' = r.clock
           /\ exc' = r.raised
           /\ batch' = IF should_run(r.job, r.clock) /\ Len(ran) < 3
                       THEN Append(Tail(batch), j) ELSE Tail(batch)
           /\ ran' = Append(ran, [id |-> j, invoked |-> r.invoked])
           /\ last' = [id |-> j, at |-> now, invoked |-> r.invoked,
                       work |-> IF r.invoked THEN w ELSE "not_invoked",
                       done |-> r.clock, ret |-> r.ret, worked |-> worked]
    /\ UNCHANGED <<mode, startNow, startJobs, startJob, drivers>>
    /\ UNCHANGED api_vars

\* Scheduler._run_job on the next job of the batch.
RunJob(d, w, e) ==
    /\ mode # "idle"
    /\ ~exc
    /\ batch # <<>>
    /\ LET j == Head(batch)
           r == run(job[j], now, d, w)
           worked == IF r.invoked THEN ApplyEffect(jobs, e) ELSE jobs
       IN  /\ r.clock <= MaxTime
           /\ r.invoked \/ (d = 0 /\ w = "None" /\ e = NoEffect)
           /\ job' = [job EXCEPT ![j] = r.job]
           /\ jobs' = IF ~r.raised /\ is_cancel(r.ret)
                      THEN cancel_job(worked, j) ELSE worked
           /\ now' = r.clock
           /\ exc' = r.raised
           /\ batch' = Tail(batch)
           /\ ran' = Append(ran, [id |-> j, invoked |-> r.invoked])
           /\ last' = [id |-> j, at |-> now, invoked |-> r.invoked,
                       work |-> IF r.invoked THEN w ELSE "not_invoked",
                       done |-> r.clock, ret |-> r.ret, worked |-> worked]
    /\ UNCHANGED <<mode, startNow, startJobs, startJob, drivers>>
    /\ UNCHANGED api_vars

\* The call returns, or the work's exception leaves it.
Return ==
    /\ mode # "idle"
    /\ exc \/ batch = <<>>
    /\ mode' = "idle"
    /\ batch' = <<>>
    /\ exc' = FALSE
    /\ startNow' = 0
    /\ startJobs' = <<>>
    /\ startJob' = [j \in JobIds |-> NoJob]
    /\ ran' = <<>>
    /\ last' = NoRun
    /\ UNCHANGED <<now, jobs, job, drivers>>
    /\ UNCHANGED api_vars

Next ==
    \/ Tick
    \/ \E j \in ApiJobs, p \in Periods : Every(j, p)
    \/ \E j \in JobIds, a \in AtTimes : At(j, a)
    \/ \E j \in JobIds, u \in Deadlines : Until(j, u)
    \/ \E j \in JobIds : Do(j)
    \/ \E j \in JobIds : CancelJob(j)
    \/ Clear
    \/ RunPending
    \/ RunAll
    \/ \E d \in WorkTimes, w \in WorkOutcomes, e \in WorkEffects : RunJob(d, w, e)
    \/ Return

Spec == Init /\ [][Next]_vars

\* The polling loop alone, on NumJobs jobs: jobs are registered, the clock
\* advances, the driver calls run_pending(); the works call nothing back.
NextPoll ==
    \/ Tick
    \/ \E j \in JobIds, p \in Periods : Every(j, p)
    \/ \E j \in JobIds : Do(j)
    \/ RunPending
    \/ \E d \in WorkTimes, w \in WorkOutcomes : RunJob(d, w, NoEffect)
    \/ Return

SpecPoll == Init /\ [][NextPoll]_vars

\* ------------------------------------------------- the configuration calls

\* The default Scheduler object and a second one; a Job's scheduler
\* attribute is one of them or None.
Schedulers == {1, 2}
Owners == {None} \cup Schedulers

\* The list of scheduler s
JobsOf(s) ==
    IF s = 1 THEN jobs ELSE other_jobs

\* every()'s table of unit aliases: the timedelta keyword of a unit, or
\* "unsupported".
unit_kwarg(unit) ==
    IF unit \in {"d", "day", "days"} THEN "days"
    ELSE IF unit \in {"h", "hour", "hours"} THEN "hours"
    ELSE IF unit \in {"m", "minute", "minutes"} THEN "minutes"
    ELSE IF unit \in {"s", "second", "seconds"} THEN "seconds"
    ELSE IF unit \in {"w", "week", "weeks"} THEN "weeks"
    ELSE "unsupported"

\* A timedelta whose week has five days.
timedelta_short_week(kwarg, number) ==
    CASE kwarg = "seconds" -> number
      [] kwarg = "minutes" -> 60 * number
      [] kwarg = "hours" -> 3600 * number
      [] kwarg = "days" -> 86400 * number
      [] kwarg = "weeks" -> 432000 * number

\* timedelta(**{kwarg: number}), in clock units (seconds)
timedelta(kwarg, number) ==
    CASE kwarg = "seconds" -> number
      [] kwarg = "minutes" -> 60 * number
      [] kwarg = "hours" -> 3600 * number
      [] kwarg = "days" -> 86400 * number
      [] kwarg = "weeks" -> 604800 * number

\* Scheduler.every(number, unit) on scheduler sch: the exception raised, or
\* "ok" and the new job.
every(sch, number, unit) ==
    IF unit_kwarg(unit) = "unsupported"
    THEN [outcome |-> "Exception", message |-> <<"time unit of", unit, "not supported.">>,
          job |-> NoJob]
    ELSE [outcome |-> "ok", message |-> <<>>,
          job |-> JobInit(timedelta(unit_kwarg(unit), number), sch)]

\* The values passed to tag(): strings; a list, which is not an instance of
\* Hashable; and a tuple that holds a list, which is an instance of Hashable
\* (tuple has __hash__) but whose hash raises TypeError.
TagNames == {"a", "b", "c"}
TagValues == TagNames \cup {"list", "tuple_of_list"}

isinstance_Hashable(x) ==
    x # "list"

hash_raises(x) ==
    x \in {"list", "tuple_of_list"}

\* set.update(args): the elements are added one by one, and the one whose
\* hash raises ends the update with what was added before it.
RECURSIVE set_update(_, _)
set_update(tags, args) ==
    IF args = <<>> THEN [tags |-> tags, outcome |-> "ok"]
    ELSE IF hash_raises(Head(args)) THEN [tags |-> tags, outcome |-> "TypeError"]
    ELSE set_update(tags \cup {Head(args)}, Tail(args))

\* Job.tag(*args)
tag(jr, args) ==
    IF \E i \in 1..Len(args) : ~isinstance_Hashable(args[i])
    THEN [job |-> jr, outcome |-> "TypeError"]
    ELSE LET u == set_update(jr.tags, args)
         IN  [job |-> [jr EXCEPT !.tags = u.tags], outcome |-> u.outcome]

\* The arguments of until(): a datetime; a timedelta; a string, with v what
\* _decode_datetimestr makes of it (a moment, or None when no format
\* matches); or a value of another type.
UntilArgs ==
    {[kind |-> "datetime", v |-> u] : u \in Deadlines}
        \cup {[kind |-> "timedelta", v |-> d] : d \in {-1, 0}}
        \cup {[kind |-> "str", v |-> None]}
        \cup {[kind |-> "int", v |-> 0]}

\* Job.until(a), with t1 the clock as read to resolve a timedelta and t2 the
\* clock as read by the comparison that follows.  cancel_after is assigned
\* before the comparison.
until(jr, a, t1, t2) ==
    IF a.kind \notin {"datetime", "timedelta", "str"}
    THEN [job |-> jr, outcome |-> "TypeError"]
    ELSE IF a.kind = "str" /\ a.v = None
    THEN [job |-> jr, outcome |-> "ScheduleValueError"]
    ELSE LET moment == IF a.kind = "timedelta" THEN t1 + a.v ELSE a.v
             set == [jr EXCEPT !.cancel_after = moment]
         IN  IF set.cancel_after < t2
             THEN [job |-> set, outcome |-> "ScheduleValueError"]
             ELSE [job |-> set, outcome |-> "ok"]

\* A do() that does not look at the job's scheduler.
do_unchecked(jr, t) ==
    [job |-> [jr EXCEPT !.job_func = TRUE, !.next_run = t + jr.period],
     outcome |-> "ok", append |-> TRUE]

\* A do() that looks at the job's scheduler before it assigns anything.
do_checks_first(jr, t) ==
    IF jr.scheduler = None
    THEN [job |-> jr, outcome |-> "ScheduleError", append |-> FALSE]
    ELSE [job |-> [jr EXCEPT !.job_func = TRUE,
                             !.next_run = t + jr.period
                                 + (IF jr.at_time = None THEN 0 ELSE jr.at_time)],
          outcome |-> "ok", append |-> TRUE]

\* Job.do(job_func) at clock value t: job_func and next_run are assigned,
\* then a job without a scheduler raises; append tells whether the job is
\* appended to its scheduler's list.
do(jr, t) ==
    LET bound == schedule_next_run([jr EXCEPT !.job_func = TRUE], t)
    IN  IF jr.scheduler = None
        THEN [job |-> bound, outcome |-> "ScheduleError", append |-> FALSE]
        ELSE [job |-> bound, outcome |-> "ok", append |-> TRUE]

\* A string is a sequence of characters.  The characters \d matches, as far
\* as the model's strings go.
Digits == {"0", "1", "2", "3", "4", "5", "6", "7", "8", "9"}

DigitValue(c) ==
    CASE c = "0" -> 0 [] c = "1" -> 1 [] c = "2" -> 2 [] c = "3" -> 3
      [] c = "4" -> 4 [] c = "5" -> 5 [] c = "6" -> 6 [] c = "7" -> 7
      [] c = "8" -> 8 [] c = "9" -> 9

\* The length of the longest prefix of str made of digits: what \d+ takes.
RECURSIVE digits_prefix(_)
digits_prefix(str) ==
    IF str # <<>> /\ Head(str) \in Digits
    THEN 1 + digits_prefix(Tail(str))
    ELSE 0

\* int() of a string of digits
RECURSIVE int(_)
int(str) ==
    IF str = <<>> THEN 0
    ELSE 10 * int(SubSeq(str, 1, Len(str) - 1)) + DigitValue(str[Len(str)])

\* One optional group (\d+<letter>)? at the start of str: the group's text
\* without its letter (<<>> for an absent group, as int() is not applied to
\* it) and what is left of the string.
match_group(str, letter) ==
    LET n == digits_prefix(str)
    IN  IF n > 0 /\ Len(str) > n /\ str[n + 1] = letter
        THEN [present |-> TRUE, text |-> SubSeq(str, 1, n),
              rest |-> SubSeq(str, n + 2, Len(str))]
        ELSE [present |-> FALSE, text |-> <<>>, rest |-> str]

\* re.match(r"^(\d+h)?(\d+m)?(\d+s)?$", str): the three groups, and whether
\* the pattern matches.  Without re.MULTILINE, $ matches at the end of the
\* string and also just before a newline that ends the string.
re_match(str) ==
    LET h == match_group(str, "h")
        m == match_group(h.rest, "m")
        sec == match_group(m.rest, "s")
    IN  [matched |-> sec.rest \in {<<>>, <<"\n">>},
         hour |-> IF h.present THEN int(h.text) ELSE 0,
         minute |-> IF m.present THEN int(m.text) ELSE 0,
         second |-> IF sec.present THEN int(sec.text) ELSE 0]

\* Job.at(time_str), for a str argument
at(jr, str) ==
    LET matched == re_match(str)
    IN  IF ~matched.matched
        THEN [job |-> jr, outcome |-> "ScheduleValueError"]
        ELSE [job |-> [jr EXCEPT !.at_time =
                          3600 * matched.hour + 60 * matched.minute + matched.second],
              outcome |-> "ok"]

\* What is recorded of a call on job j: see NoCall.
Called(op, j, arg, outcome, ret) ==
    [op |-> op, id |-> j, arg |-> arg, outcome |-> outcome, ret |-> ret,
     now0 |-> now, job0 |-> job[j], jobs0 |-> jobs, other0 |-> other_jobs]

\* The clock advances before the first job is made.
Wait ==
    /\ \A j \in JobIds : ~job[j].created
    /\ now < MaxTime
    /\ now' = now + 1
    /\ UNCHANGED <<jobs, job, call_vars, api_vars>>

\* scheduler.every(number, unit) on scheduler sch; j is the new Job object.
EveryCall(j, sch, number, unit) ==
    /\ ~job[j].created
    /\ \A k \in JobIds : k < j => job[k].job_func
    /\ LET r == every(sch, number, unit)
       IN  /\ job' = IF r.outcome = "ok" THEN [job EXCEPT ![j] = r.job] ELSE job
           /\ call' = Called("every", j, <<sch, number, unit>>, r.outcome, r.message)
    /\ UNCHANGED <<now, jobs, other_jobs, returned, call_vars>>

\* Job(interval): a job constructed with no scheduler.
JobCall(j, interval) ==
    /\ ~job[j].created
    /\ \A k \in JobIds : k < j => job[k].job_func
    /\ job' = [job EXCEPT ![j] = JobInit(interval, None)]
    /\ call' = Called("Job", j, <<interval>>, "ok", <<>>)
    /\ UNCHANGED <<now, jobs, other_jobs, returned, call_vars>>

\* job.tag(*args), in the builder chain
TagCall(j, args) ==
    /\ job[j].created
    /\ ~job[j].job_func
    /\ LET r == tag(job[j], args)
       IN  /\ job' = [job EXCEPT ![j] = r.job]
           /\ call' = Called("tag", j, args, r.outcome, <<>>)
    /\ UNCHANGED <<now, jobs, other_jobs, returned, call_vars>>

\* job.at(str), in the builder chain
AtCall(j, str) ==
    /\ job[j].created
    /\ ~job[j].job_func
    /\ LET r == at(job[j], str)
       IN  /\ job' = [job EXCEPT ![j] = r.job]
           /\ call' = Called("at", j, str, r.outcome, <<>>)
    /\ UNCHANGED <<now, jobs, other_jobs, returned, call_vars>>

\* job.until(a), on the job made last, before or after its do(); the clock
\* advances by lag between until()'s two reads of it (a timedelta argument
\* is the one that makes until() read it twice).
UntilCall(j, a, lag) ==
    /\ job[j].created
    /\ \A k \in JobIds : k > j => ~job[k].created
    /\ now + lag <= MaxTime
    /\ lag # 0 => a.kind = "timedelta"
    /\ a.kind = "timedelta" => now + a.v >= 0
    /\ LET r == until(job[j], a, now, now + lag)
       IN  /\ job' = [job EXCEPT ![j] = r.job]
           /\ call' = Called("until", j, a, r.outcome, <<>>)
    /\ now' = now + lag
    /\ UNCHANGED <<jobs, other_jobs, returned, call_vars>>

\* A do() that registers every job with the default scheduler.
DoCall_default_list(j) ==
    /\ job[j].created
    /\ ~job[j].job_func
    /\ job' = [job EXCEPT ![j] = schedule_next_run([@ EXCEPT !.job_func = TRUE], now)]
    /\ jobs' = IF job[j].scheduler # None THEN Append(jobs, j) ELSE jobs
    /\ call' = Called("do", j, <<>>,
                      IF job[j].scheduler # None THEN "ok" ELSE "ScheduleError", <<>>)
    /\ UNCHANGED <<now, other_jobs, returned, call_vars>>

\* job.do(job_func), the first do() of the job
DoCall(j) ==
    /\ job[j].created
    /\ ~job[j].job_func
    /\ LET r == do(job[j], now)
       IN  /\ job' = [job EXCEPT ![j] = r.job]
           /\ jobs' = IF r.append /\ job[j].scheduler = 1 THEN Append(jobs, j) ELSE jobs
           /\ other_jobs' = IF r.append /\ job[j].scheduler = 2
                             THEN Append(other_jobs, j) ELSE other_jobs
           /\ call' = Called("do", j, <<>>, r.outcome, <<>>)
    /\ UNCHANGED <<now, returned, call_vars>>

\* every()'s arguments, tag()'s and at()'s in the specification of the
\* configuration calls.
BuildNumbers == {1}
BuildUnits == {"s", "sec"}
BuildTags == {<<"a">>}
BuildAtStrings == {<<"1", "s">>}

NextBuild ==
    \/ Wait
    \/ \E j \in ApiJobs, sch \in Schedulers, n \in BuildNumbers, u \in BuildUnits :
           EveryCall(j, sch, n, u)
    \/ \E j \in ApiJobs, p \in BuildNumbers : JobCall(j, p)
    \/ \E j \in ApiJobs, args \in BuildTags : TagCall(j, args)
    \/ \E j \in ApiJobs, str \in BuildAtStrings : AtCall(j, str)
    \/ \E j \in ApiJobs, a \in UntilArgs, lag \in {0, 1} : UntilCall(j, a, lag)
    \/ \E j \in ApiJobs : DoCall(j)

SpecBuild == Init /\ [][NextBuild]_vars

\* ------------------------------------------------------ the registry calls

\* The tag argument of get_jobs() and clear() when it is omitted (None).
NoTag == "None"

\* [job for job in self.jobs if tag in job.tags] (keep = TRUE) and
\* (job for job in self.jobs if tag not in job.tags) (keep = FALSE)
RECURSIVE jobs_by_tag(_, _, _)
jobs_by_tag(s, tg, keep) ==
    IF s = <<>> THEN <<>>
    ELSE (IF (tg \in job[Head(s)].tags) = keep THEN <<Head(s)>> ELSE <<>>)
            \o jobs_by_tag(Tail(s), tg, keep)

\* A clear(tag) that deletes every job that has a tag at all.
clear_tagged_any(s, tg) ==
    IF tg = NoTag THEN <<>>
    ELSE SelectSeq(s, LAMBDA x : job[x].tags = {})

\* Scheduler.clear(tag): what is left of the list s
clear_tagged(s, tg) ==
    IF tg = NoTag THEN clear(s)
    ELSE jobs_by_tag(s, tg, FALSE)

\* A get_jobs() that returns Scheduler.jobs itself when no tag is given.
get_jobs_no_copy(tg) ==
    IF tg = NoTag THEN [same_object |-> TRUE, list |-> <<>>]
    ELSE [same_object |-> FALSE, list |-> jobs_by_tag(jobs, tg, TRUE)]

\* Scheduler.get_jobs(tag): a new list in both branches
get_jobs(tg) ==
    IF tg = NoTag THEN [same_object |-> FALSE, list |-> jobs]
    ELSE [same_object |-> FALSE, list |-> jobs_by_tag(jobs, tg, TRUE)]

\* The list a caller holds, as the caller sees it
Seen(held) ==
    IF held.same_object THEN jobs ELSE held.list

\* What is recorded of a call on the default scheduler: as Called, with the
\* fields of all the jobs as they were before it.
CalledOnScheduler(op, j, arg, ret) ==
    [op |-> op, id |-> j, arg |-> arg, outcome |-> "ok", ret |-> ret,
     now0 |-> now, job0 |-> job, jobs0 |-> jobs, other0 |-> other_jobs]

\* scheduler.clear(tg)
ClearCall(tg) ==
    /\ jobs' = clear_tagged(jobs, tg)
    /\ call' = CalledOnScheduler("clear", 0, tg, <<>>)
    /\ UNCHANGED <<now, job, other_jobs, returned, call_vars>>

\* scheduler.cancel_job(job j), for a job that is registered or not
CancelJobCall(j) ==
    /\ job[j].created
    /\ jobs' = cancel_job(jobs, j)
    /\ call' = CalledOnScheduler("cancel_job", j, <<>>, <<>>)
    /\ UNCHANGED <<now, job, other_jobs, returned, call_vars>>

\* scheduler.get_jobs(tg); the caller keeps the list it returns.
GetJobsCall(tg) ==
    /\ returned' = get_jobs(tg)
    /\ call' = CalledOnScheduler("get_jobs", 0, tg, Seen(get_jobs(tg)))
    /\ UNCHANGED <<now, jobs, job, other_jobs, call_vars>>

\* The caller deletes the first element of the list get_jobs() returned.
MutateReturned ==
    /\ call.op = "get_jobs"
    /\ Seen(returned) # <<>>
    /\ IF returned.same_object
       THEN jobs' = Tail(jobs) /\ returned' = returned
       ELSE jobs' = jobs /\ returned' = [returned EXCEPT !.list = Tail(@)]
    /\ call' = CalledOnScheduler("mutate_returned", 0, <<>>, Seen(returned))
    /\ UNCHANGED <<now, job, other_jobs, call_vars>>

ClearTags == {NoTag, "a", "b"}
RegistryTags == {<<"a">>, <<"b">>}

\* The registry: jobs of the default scheduler are made, tagged "a", "b" or not,
\* and registered at one instant; the driver clears, cancels and lists.
NextRegistry ==
    \/ \E j \in JobIds : EveryCall(j, 1, 1, "s")
    \/ \E j \in JobIds, args \in RegistryTags : TagCall(j, args)
    \/ \E j \in JobIds : DoCall(j)
    \/ \E tg \in ClearTags : ClearCall(tg)
    \/ \E j \in JobIds : CancelJobCall(j)
    \/ \E tg \in ClearTags : GetJobsCall(tg)
    \/ MutateReturned

SpecRegistry == Init /\ [][NextRegistry]_vars

\* tag() alone: one job of the default scheduler, tagged again and again
\* with up to MaxArgs arguments a call.
MaxArgs == 2

TagArgs ==
    UNION {[1..n -> TagValues] : n \in 0..MaxArgs}

NextTag ==
    \/ EveryCall(1, 1, 1, "s")
    \/ \E args \in TagArgs : TagCall(1, args)

SpecTag == Init /\ [][NextTag]_vars

\* at() alone: one job of the default scheduler, given an offset by a string
\* of up to MaxLen characters, and, after a first string of at most two
\* characters, by a second one.
MaxLen == 4

AtChars == {"1", "h", "m", "s", "x", "\n"}

AtStrings ==
    UNION {[1..n -> AtChars] : n \in 0..MaxLen}

NextAt ==
    \/ EveryCall(1, 1, 1, "d")
    \/ \E str \in AtStrings :
           /\ \/ call.op = "every"
              \/ call.op = "at" /\ call.job0.at_time = None /\ Len(call.arg) <= 2
           /\ AtCall(1, str)

SpecAt == Init /\ [][NextAt]_vars

\* ------------------------------------------------------ the units of every()

\* The fifteen aliases of every(), and two strings that are none of them.
UnitNames ==
    {"w", "week", "weeks", "d", "day", "days", "h", "hour", "hours",
     "m", "minute", "minutes", "s", "second", "seconds", "sec", "W"}

UnitNumbers == {1, 2, 3}

NextUnits ==
    \/ \E j \in ApiJobs, sch \in Schedulers, n \in UnitNumbers, u \in UnitNames :
           EveryCall(j, sch, n, u)
    \/ \E j \in ApiJobs : DoCall(j)

SpecUnits == Init /\ [][NextUnits]_vars

\* The returns of the works in the specifications that follow.
LateReturns == {"None", "CancelJobInstance"}

\* ------------------------------------------------------ two driver threads

\* The clock advances while no driver is inside a call.
DriverTick ==
    /\ \A d \in Drivers : ~drivers.active[d]
    /\ now < MaxTime
    /\ now' = now + 1
    /\ drivers' = NoDrivers
    /\ UNCHANGED <<jobs, job, mode, batch, exc, startNow, startJobs, startJob,
                   ran, last, api_vars>>

\* Driver d enters run_pending(): it collects and sorts the due jobs.  No
\* lock is taken, so it may enter while the other driver is inside.
DriverStart(d) ==
    /\ ~drivers.active[d]
    /\ LET todo == sorted(runnable_jobs)
       IN  drivers' = [drivers EXCEPT
               !.active[d] = TRUE,
               !.batch[d] = todo,
               !.overlapped = @ \/ \E o \in Drivers \ {d} : drivers.active[o],
               !.selected = @ \cup {todo[i] : i \in 1..Len(todo)}]
    /\ UNCHANGED <<now, jobs, job, mode, batch, exc, startNow, startJobs,
                   startJob, ran, last, api_vars>>

\* Driver d's loop calls _run_job on the next job of its list, with w what
\* the work returns.
DriverRunJob(d, w) ==
    /\ drivers.active[d]
    /\ drivers.batch[d] # <<>>
    /\ LET j == Head(drivers.batch[d])
           r == run(job[j], now, 0, w)
       IN  /\ r.invoked \/ w = "None"
           /\ job' = [job EXCEPT ![j] = r.job]
           /\ jobs' = IF is_cancel(r.ret) THEN cancel_job(jobs, j) ELSE jobs
           /\ drivers' = [drivers EXCEPT
                   !.batch[d] = Tail(@),
                   !.invoked[j] = IF r.invoked THEN @ + 1 ELSE @]
    /\ UNCHANGED <<now, mode, batch, exc, startNow, startJobs, startJob,
                   ran, last, api_vars>>

\* Driver d's run_pending() returns.
DriverReturn(d) ==
    /\ drivers.active[d]
    /\ drivers.batch[d] = <<>>
    /\ drivers' = [drivers EXCEPT !.active[d] = FALSE]
    /\ UNCHANGED <<now, jobs, job, mode, batch, exc, startNow, startJobs,
                   startJob, ran, last, api_vars>>

NextDrivers ==
    \/ DriverTick
    \/ \E j \in ApiJobs, p \in Periods : Every(j, p)
    \/ \E j \in ApiJobs : Do(j)
    \/ \E d \in Drivers : DriverStart(d)
    \/ \E d \in Drivers, w \in LateReturns : DriverRunJob(d, w)
    \/ \E d \in Drivers : DriverReturn(d)

SpecDrivers == Init /\ [][NextDrivers]_vars

\* ------------------------------------ works that call the scheduler's API

\* What a work may call while it executes: nothing, cancel_job(k), clear(),
\* or do() on a job k that was made and not yet bound.
WorkCalls ==
    {NoEffect, [op |-> "clear", arg |-> 0]}
        \cup {[op |-> c, arg |-> k] : c \in {"cancel_job", "do"}, k \in ApiJobs}

\* Scheduler.jobs after the work's call e
CallOnList(s, e) ==
    CASE e.op = "cancel_job" -> cancel_job(s, e.arg)
      [] e.op = "clear" -> clear(s)
      [] e.op = "do" -> Append(s, e.arg)
      [] OTHER -> s

\* The jobs' fields after the work's call e, made at clock value t
CallOnJob(f, e, t) ==
    IF e.op = "do" THEN [f EXCEPT ![e.arg] = do(f[e.arg], t).job] ELSE f

\* The work's call e can be made.
CallAllowed(e) ==
    e.op = "do" => job[e.arg].created /\ ~job[e.arg].job_func

\* A loop that passes over a job of its list that is no longer registered.
RunJobWork_skips_removed(d, w, e) ==
    /\ mode # "idle"
    /\ ~exc
    /\ batch # <<>>
    /\ CallAllowed(e)
    /\ LET j == Head(batch)
           r == run(job[j], now, d, w)
           worked == IF r.invoked THEN CallOnList(jobs, e) ELSE jobs
       IN  IF ~InSeq(jobs, j)
           THEN /\ d = 0 /\ w = "None" /\ e = NoEffect
                /\ batch' = Tail(batch)
                /\ UNCHANGED <<now, jobs, job, exc, ran, last>>
           ELSE /\ r.clock <= MaxTime
                /\ r.invoked \/ (d = 0 /\ w = "None" /\ e = NoEffect)
                /\ job' = [(IF r.invoked THEN CallOnJob(job, e, now) ELSE job)
                              EXCEPT ![j] = r.job]
                /\ jobs' = IF is_cancel(r.ret) THEN cancel_job(worked, j) ELSE worked
                /\ now' = r.clock
                /\ exc' = r.raised
                /\ batch' = Tail(batch)
                /\ ran' = Append(ran, [id |-> j, invoked |-> r.invoked])
                /\ last' = [id |-> j, at |-> now, invoked |-> r.invoked,
                            work |-> IF r.invoked THEN w ELSE "not_invoked",
                            done |-> r.clock, ret |-> r.ret, worked |-> worked,
                            listed |-> InSeq(jobs, j)]
    /\ UNCHANGED <<mode, startNow, startJobs, startJob, drivers>>
    /\ UNCHANGED api_vars

\* Scheduler._run_job on the next job of the loop's list, with a work that
\* takes d, calls e on the scheduler and returns w.  The loop's list was
\* built when the call started: the job is run whether or not it is still
\* in Scheduler.jobs.  The record of the run also tells whether the job
\* was in Scheduler.jobs when run() was entered.
RunJobWork(d, w, e) ==
    /\ mode # "idle"
    /\ ~exc
    /\ batch # <<>>
    /\ CallAllowed(e)
    /\ LET j == Head(batch)
           r == run(job[j], now, d, w)
           worked == IF r.invoked THEN CallOnList(jobs, e) ELSE jobs
       IN  /\ r.clock <= MaxTime
           /\ r.invoked \/ (d = 0 /\ w = "None" /\ e = NoEffect)
           /\ job' = [(IF r.invoked THEN CallOnJob(job, e, now) ELSE job)
                         EXCEPT ![j] = r.job]
           /\ jobs' = IF is_cancel(r.ret) THEN cancel_job(worked, j) ELSE worked
           /\ now' = r.clock
           /\ exc' = r.raised
           /\ batch' = Tail(batch)
           /\ ran' = Append(ran, [id |-> j, invoked |-> r.invoked])
           /\ last' = [id |-> j, at |-> now, invoked |-> r.invoked,
                       work |-> IF r.invoked THEN w ELSE "not_invoked",
                       done |-> r.clock, ret |-> r.ret, worked |-> worked,
                       listed |-> InSeq(jobs, j)]
    /\ UNCHANGED <<mode, startNow, startJobs, startJob, drivers>>
    /\ UNCHANGED api_vars

NextWork ==
    \/ Tick
    \/ \E j \in ApiJobs, p \in Periods : Every(j, p)
    \/ \E j \in ApiJobs : Do(j)
    \/ RunPending
    \/ RunAll
    \/ \E d \in WorkTimes, w \in LateReturns, e \in WorkCalls : RunJobWork(d, w, e)
    \/ Return

SpecWork == Init /\ [][NextWork]_vars

\* ------------------------------------------ a driver that keeps on polling

\* The jobs are made, given their deadline and bound before the clock
\* starts, so that every next_run lies within the clock's range.
Setup ==
    /\ now = 0
    /\ \/ \E j \in ApiJobs, p \in Periods : Every(j, p)
       \/ \E j \in ApiJobs, u \in Deadlines : Until(j, u)
       \/ \E j \in ApiJobs : Do(j)

\* _run_job with a work that returns
PollRunJob ==
    \E w \in WorkReturns : RunJob(0, w, NoEffect)

NextLive ==
    \/ Tick
    \/ Setup
    \/ \E j \in ApiJobs : CancelJob(j)
    \/ Clear
    \/ RunPending
    \/ PollRunJob
    \/ Return

\* The clock keeps advancing, the driver keeps calling run_pending(), and
\* a call that has started goes on to its end.
SpecLive ==
    /\ Init
    /\ [][NextLive]_vars
    /\ SF_vars(Tick)
    /\ WF_vars(RunPending)
    /\ WF_vars(PollRunJob)
    /\ WF_vars(Return)

\* ------------------------------------------- periods that are not positive

\* Job.__init__ takes any timedelta as the period: a negative one, zero.
ZeroPeriods == {-1, 0, 1}

\* do() on a job of such a period.  A moment before the clock's origin has
\* no value in this model (the value below it stands for None), so a
\* negative period is bound once the clock has left the origin.
ZeroDo(j) ==
    /\ now + job[j].period >= 0
    /\ Do(j)

\* _run_job with a work that terminates
ZeroRunJob ==
    \E d \in WorkTimes, w \in LateReturns : RunJob(d, w, NoEffect)

NextZero ==
    \/ Tick
    \/ \E j \in ApiJobs, p \in ZeroPeriods : Every(j, p)
    \/ \E j \in ApiJobs : ZeroDo(j)
    \/ RunPending
    \/ ZeroRunJob
    \/ Return

\* Every work terminates, and the loop and the return of run_pending() go
\* on once the work has.
SpecZero ==
    /\ Init
    /\ [][NextZero]_vars
    /\ WF_vars(ZeroRunJob)
    /\ WF_vars(Return)

\* --------------------------------------------------- three jobs side by side

\* The three jobs.
IsolatedJobs == {1, 2, 3}

\* The jobs are configured and bound before the clock starts.
Configure ==
    /\ now = 0
    /\ mode = "idle"
    /\ \/ \E j \in IsolatedJobs : Every(j, 1)
       \/ \E j \in IsolatedJobs, a \in AtTimes : At(j, a)
       \/ \E j \in IsolatedJobs, u \in Deadlines : Until(j, u)
       \/ \E j \in IsolatedJobs, args \in BuildTags : TagCall(j, args)
       \/ \E j \in IsolatedJobs : Do(j)

NextIsolate ==
    \/ Tick
    \/ Configure
    \/ \E j \in IsolatedJobs : CancelJob(j)
    \/ RunPending
    \/ \E w \in LateReturns : RunJob(0, w, NoEffect)
    \/ Return

SpecIsolate == Init /\ [][NextIsolate]_vars

\* ------------------------------------- calls on a job after its first do()

\* The longest list a repeated do() is let to build.
MaxEntries == 3

\* job.do(job_func) on a job whose work is bound already, registered or
\* removed.  do() has no test of its own for this: job_func and next_run are
\* assigned again and the job is appended again.  The call records the
\* job's fields and the list as it leaves them.
DoAgain(j) ==
    /\ mode = "idle"
    /\ job[j].job_func
    /\ Len(jobs) < MaxEntries
    /\ LET r == do(job[j], now)
           appended == IF r.append THEN Append(jobs, j) ELSE jobs
       IN  /\ job' = [job EXCEPT ![j] = r.job]
           /\ jobs' = appended
           /\ call' = Called("do", j, <<>>, r.outcome, <<r.job, appended>>)
    /\ UNCHANGED <<now, other_jobs, returned, call_vars>>

NextRedo ==
    \/ Tick
    \/ \E j \in ApiJobs, p \in Periods : Every(j, p)
    \/ \E j \in ApiJobs : Do(j)
    \/ \E j \in ApiJobs : DoAgain(j)
    \/ \E j \in ApiJobs : CancelJob(j)
    \/ Clear
    \/ RunPending
    \/ \E w \in LateReturns : RunJob(0, w, NoEffect)
    \/ Return

SpecRedo == Init /\ [][NextRedo]_vars

\* job.at(time_str) on a job whose work is bound already, with a the offset
\* the string stands for: at_time is assigned and nothing else.  The call
\* records the job's fields as it leaves them.
AtLate(j, a) ==
    /\ mode = "idle"
    /\ job[j].job_func
    /\ LET set == [job[j] EXCEPT !.at_time = a]
       IN  /\ job' = [job EXCEPT ![j] = set]
           /\ call' = Called("at", j, <<a>>, "ok", <<set>>)
    /\ UNCHANGED <<now, jobs, other_jobs, returned, call_vars>>

NextLateAt ==
    \/ Tick
    \/ \E j \in ApiJobs, p \in Periods : Every(j, p)
    \/ \E j \in ApiJobs, a \in AtTimes : At(j, a)
    \/ \E j \in ApiJobs : Do(j)
    \/ \E j \in ApiJobs, a \in AtTimes : AtLate(j, a)
    \/ RunPending
    \/ \E w \in LateReturns : RunJob(0, w, NoEffect)
    \/ Return

SpecLateAt == Init /\ [][NextLateAt]_vars

\* ------------------------------------------------------------- the claims

\* The jobs run() was called on so far in the call in progress, in order, and
\* the order of the whole call: those, then the jobs still to run.
RanIds ==
    [i \in 1..Len(ran) |-> ran[i].id]

Plan ==
    RanIds \o batch

\* The jobs that were registered and due (next_run <= now) when the call in
\* progress started.
DueAtStart ==
    {j \in JobIds : InSeq(startJobs, j) /\ startJob[j].next_run <= startNow}

\* The place of a registered job in the registration order at the start.
PosAtStart(j) ==
    CHOOSE i \in 1..Len(startJobs) : startJobs[i] = j

\* How many times run() was called on j in the call in progress.
RunsOf(j) ==
    Cardinality({i \in 1..Len(ran) : ran[i].id = j})

\* C1: a call of run_pending() calls run() on exactly the jobs that were
\* registered with next_run <= now when it started, each once, in ascending
\* order of the next_run they had then; a job that was not due is not run and
\* keeps its next_run and last_run.  (The call works through this order
\* unless a work raises, which ends the call: C7.)
C1_RunPendingRunsDueJobs ==
    mode = "run_pending" =>
        /\ {Plan[i] : i \in 1..Len(Plan)} = DueAtStart
        /\ \A a, b \in 1..Len(Plan) : a # b => Plan[a] # Plan[b]
        /\ \A a, b \in 1..Len(Plan) :
                a < b => startJob[Plan[a]].next_run <= startJob[Plan[b]].next_run
        /\ \A j \in JobIds \ DueAtStart :
                /\ RunsOf(j) = 0
                /\ job[j].next_run = startJob[j].next_run
                /\ job[j].last_run = startJob[j].last_run
        /\ (batch = <<>> /\ ~exc) => \A j \in DueAtStart : RunsOf(j) = 1

\* C1's case: a finished call that ran two due jobs, the one registered later
\* first because it was due earlier, and left a third, not yet due, untouched.
C1_Witness ==
    /\ mode = "run_pending" /\ batch = <<>> /\ ~exc
    /\ Len(ran) = 2
    /\ startJob[ran[1].id].next_run < startJob[ran[2].id].next_run
    /\ PosAtStart(ran[1].id) > PosAtStart(ran[2].id)
    /\ ran[1].invoked /\ ran[2].invoked
    /\ \E j \in JobIds :
           /\ InSeq(startJobs, j) /\ startJob[j].next_run > startNow
           /\ job[j] = startJob[j]

\* C10: run_pending() runs due jobs with different next_run earliest first,
\* whatever their registration order, and due jobs with equal next_run in
\* their registration order.
C10_TiesInRegistrationOrder ==
    mode = "run_pending" =>
        \A a, b \in 1..Len(Plan) :
            a < b =>
                \/ startJob[Plan[a]].next_run < startJob[Plan[b]].next_run
                \/ /\ startJob[Plan[a]].next_run = startJob[Plan[b]].next_run
                   /\ PosAtStart(Plan[a]) < PosAtStart(Plan[b])

\* C10's case: a finished call that ran three jobs, two of them with equal
\* next_run, after a job that was registered after both but due earlier.
C10_Witness ==
    /\ mode = "run_pending" /\ batch = <<>> /\ ~exc
    /\ Len(ran) = 3
    /\ startJob[ran[1].id].next_run < startJob[ran[2].id].next_run
    /\ startJob[ran[2].id].next_run = startJob[ran[3].id].next_run
    /\ PosAtStart(ran[1].id) > PosAtStart(ran[3].id)
    /\ PosAtStart(ran[2].id) < PosAtStart(ran[3].id)

\* The job of the last _run_job, and its deadline (None when it has none).
LastJob ==
    job[last.id]

LastDeadline ==
    job[last.id].cancel_after

\* A run() that returned: one was made, and its work did not raise.
LastReturned ==
    last.id # 0 /\ last.work # "raise"

\* s without job j
WithoutJob(s, j) ==
    SelectSeq(s, LAMBDA x : x # j)

\* C2: a job that has a deadline and is run by the scheduler (run_pending or
\* run_all) when the clock is past it: the work is not invoked, run()
\* returns the cancellation signal, and the job is not in Scheduler.jobs
\* afterwards.
C2_OverdueJobIsCancelledUnrun ==
    (last.id # 0 /\ LastDeadline # None /\ last.at > LastDeadline) =>
        /\ ~last.invoked
        /\ last.work = "not_invoked"
        /\ last.ret \in {"CancelJobClass", "CancelJobInstance"}
        /\ ~InSeq(jobs, last.id)
        /\ ~exc

\* C2's case: run_pending ran a registered job past its deadline, and the
\* call removed it.
C2_Witness ==
    /\ mode = "run_pending"
    /\ last.id # 0 /\ LastDeadline # None /\ last.at > LastDeadline
    /\ InSeq(last.worked, last.id)
    /\ ~InSeq(jobs, last.id)

\* A job that is bound to its work, is not registered and is not waiting in
\* the batch of the call in progress.
Removed(j) ==
    job[j].job_func /\ ~InSeq(jobs, j) /\ ~InSeq(batch, j)

\* This step invokes the work of job j.
WorkInvokedStep(j) ==
    /\ Len(ran') = Len(ran) + 1
    /\ ran'[Len(ran')].id = j
    /\ ran'[Len(ran')].invoked

C3_LastRunBeforeDeadline ==
    (/\ LastReturned
     /\ LastDeadline # None
     /\ last.at <= LastDeadline
     /\ LastJob.next_run > LastDeadline) =>
        /\ last.invoked
        /\ Cardinality({i \in 1..Len(ran) : ran[i].id = last.id /\ ran[i].invoked}) = 1
        /\ last.ret \in {"CancelJobClass", "CancelJobInstance"}
        /\ ~InSeq(jobs, last.id)

C3_RemovedNeverRunsAgain ==
    \A j \in JobIds :
        Removed(j) =>
            /\ Removed(j)'
            /\ ~WorkInvokedStep(j)
            /\ job'[j].last_run = job[j].last_run
            /\ job'[j].next_run = job[j].next_run

\* C3: a job run when the clock is not past its deadline, whose next_run as
\* recomputed after the work is past the deadline: the work is invoked, once,
\* run() returns the cancellation signal and the scheduler removes the job;
\* and a job that has been removed is never run again by a later call.
C3_FinalRunThenRemoved ==
    [](C3_LastRunBeforeDeadline) /\ [][C3_RemovedNeverRunsAgain]_vars

\* C3's case: the work returned None in time, the next occurrence is past
\* the deadline, and the job is gone.
C3_Witness ==
    /\ LastReturned /\ last.invoked /\ last.work = "None"
    /\ LastDeadline # None
    /\ last.at < LastDeadline
    /\ LastJob.next_run > LastDeadline
    /\ InSeq(last.worked, last.id)
    /\ ~InSeq(jobs, last.id)

C5_CancellationProtocol ==
    LastReturned =>
        /\ ~exc
        /\ IF last.ret \in {"CancelJobClass", "CancelJobInstance"}
           THEN /\ ~InSeq(jobs, last.id)
                /\ jobs = WithoutJob(last.worked, last.id)
           ELSE jobs = last.worked

\* C5's case: the work cancelled its own job and then returned a CancelJob
\* instance, so the scheduler's removal found the job already absent; the
\* other job is still registered.
C5_Witness ==
    /\ LastReturned /\ last.invoked
    /\ last.ret = "CancelJobInstance"
    /\ ~InSeq(last.worked, last.id)
    /\ jobs = last.worked
    /\ jobs # <<>>

\* C6: run() returns the cancellation signal exactly when (a) the job was
\* past its deadline on entry, or (b) the work ran and the recomputed
\* next_run is past the deadline, or (c) the work returned the signal; in
\* case (b) the signal (the CancelJob class) replaces what the work returned;
\* outside (a) and (b) run() returns what the work returned.
C6_RunReturnValue ==
    LastReturned =>
        LET a == LastDeadline # None /\ last.at > LastDeadline
            b == /\ last.invoked
                 /\ LastDeadline # None
                 /\ LastJob.next_run > LastDeadline
            c == last.work \in {"CancelJobClass", "CancelJobInstance"}
        IN  /\ last.ret \in {"CancelJobClass", "CancelJobInstance"} <=> (a \/ b \/ c)
            /\ a => ~last.invoked
            /\ b => last.ret = "CancelJobClass"
            /\ ~(a \/ b) => last.ret = last.work

\* C6's case (b): the work returned a CancelJob instance, and run() returned
\* the CancelJob class because the next occurrence is past the deadline.
C6_Witness ==
    /\ LastReturned /\ last.invoked
    /\ last.work = "CancelJobInstance"
    /\ last.ret = "CancelJobClass"
    /\ LastJob.next_run > LastDeadline

\* When the last work raised, the exception is in flight, its job was run
\* once, and no job still waiting in the batch has been run.
C7_WorkRaisedAbortsCall ==
    (last.id # 0 /\ last.work = "raise") =>
        /\ exc
        /\ RunsOf(last.id) = 1
        /\ \A i \in 1..Len(batch) : RunsOf(batch[i]) = 0

\* With the exception in flight, the only step is the end of the call, which
\* runs nothing.
C7_ExceptionLeavesTheCall ==
    exc => (mode' = "idle" /\ job' = job /\ jobs' = jobs /\ now' = now)

\* C7: when a job's work raises during run_pending() or run_all(), the
\* exception leaves the call: the next thing that happens is the call's end,
\* the job is not retried, and the jobs that come later in the batch are not
\* run in that call.
C7_RaisePropagates ==
    [](C7_WorkRaisedAbortsCall) /\ [][C7_ExceptionLeavesTheCall]_vars

\* C7's case: the first of two due jobs raised in run_pending, and the
\* second is left unrun.
C7_Witness ==
    /\ mode = "run_pending" /\ exc
    /\ last.work = "raise"
    /\ Len(ran) = 1 /\ Len(batch) = 1
    /\ should_run(job[batch[1]], now)

C8_NextRunAfterRun ==
    (LastReturned /\ last.invoked) =>
        LastJob.next_run = last.done + LastJob.period
            + (IF LastJob.at_day = None THEN 0 ELSE LastJob.at_day)
            + (IF LastJob.at_time = None THEN 0 ELSE LastJob.at_time)

C8_NextRunAfterDo ==
    \A j \in JobIds :
        (~job[j].job_func /\ job'[j].job_func) =>
            /\ now' = now
            /\ job'[j].next_run = now + job'[j].period
                   + (IF job'[j].at_day = None THEN 0 ELSE job'[j].at_day)
                   + (IF job'[j].at_time = None THEN 0 ELSE job'[j].at_time)

\* C8: right after do() at time t, and right after a run() whose work was
\* invoked and returned at time t, next_run = t + period + at_day + at_time,
\* an absent at_day or at_time counting 0.
C8_NextRunFormula ==
    [](C8_NextRunAfterRun) /\ [][C8_NextRunAfterDo]_vars

\* C8's case: a job with an at() offset whose work took time: next_run is
\* counted from the work's return, offset included.
C8_Witness ==
    /\ LastReturned /\ last.invoked
    /\ LastJob.at_time = 1
    /\ last.done > last.at
    /\ LastJob.next_run = last.done + LastJob.period + 1
    /\ LastJob.last_run = last.done

\* C9: a job that is overdue by one period or more when run_pending() starts
\* is run once by that call (its work once, or not at all when its deadline
\* has passed: C2), and its next_run is then counted from the clock, which
\* is later than counting from the next_run it had; wherever a job has run,
\* next_run = last_run + period + at_offset, so that no missed occurrence is
\* left to run.
C9_NoCatchUp ==
    /\ \A j \in JobIds :
           (job[j].job_func /\ job[j].last_run # None) =>
               job[j].next_run = job[j].last_run + job[j].period + at_offset(job[j])
    /\ (mode = "run_pending" /\ batch = <<>> /\ ~exc) =>
           \A j \in DueAtStart :
               (startJob[j].next_run + startJob[j].period <= startNow) =>
                   /\ RunsOf(j) = 1
                   /\ startJob[j].cancel_after = None =>
                          \E i \in 1..Len(ran) : ran[i].id = j /\ ran[i].invoked
                   /\ \A i \in 1..Len(ran) :
                          (ran[i].id = j /\ ran[i].invoked) =>
                              /\ job[j].last_run >= startNow
                              /\ job[j].next_run >
                                     startJob[j].next_run + job[j].period + at_offset(job[j])

\* C9's case: a job two periods overdue, run once; its next_run is one
\* period after the clock.
C9_Witness ==
    /\ mode = "run_pending" /\ batch = <<>> /\ ~exc
    /\ \E j \in DueAtStart :
           /\ startJob[j].next_run + 2 * startJob[j].period <= startNow
           /\ ran = <<[id |-> j, invoked |-> TRUE]>>
           /\ job[j].next_run = now + job[j].period + at_offset(job[j])

\* ------------------------------------- the claims on the configuration calls

\* The last call left both schedulers' lists as they were.
ListsUntouched ==
    jobs = call.jobs0 /\ other_jobs = call.other0

\* C11: a job is in a scheduler's list only if do() has succeeded on it and
\* that scheduler is the one the job was created by; every(), Job(), at(),
\* until() and tag() leave both lists as they were, as does a do() that
\* fails; a do() that succeeds appends the job at the end of the list of the
\* scheduler that created it and leaves the other scheduler's list alone.
C11_DoIsTheOnlyRegistration ==
    /\ \A sch \in Schedulers, j \in JobIds :
           InSeq(JobsOf(sch), j) => (job[j].job_func /\ job[j].scheduler = sch)
    /\ (call.op = "every" /\ call.outcome = "ok") =>
           job[call.id].scheduler = call.arg[1]
    /\ call.op \in {"every", "Job", "tag", "at", "until"} => ListsUntouched
    /\ (call.op = "do" /\ call.outcome # "ok") => ListsUntouched
    /\ (call.op = "do" /\ call.outcome = "ok") =>
           /\ call.job0.scheduler \in Schedulers
           /\ call.job0.scheduler = 1 =>
                  (jobs = Append(call.jobs0, call.id) /\ other_jobs = call.other0)
           /\ call.job0.scheduler = 2 =>
                  (other_jobs = Append(call.other0, call.id) /\ jobs = call.jobs0)

\* C11's case: a job made by the second scheduler, tagged and given an
\* offset and a deadline, has just been appended by its do() to the second
\* scheduler's list, after the job the default scheduler holds.
C11_Witness ==
    /\ call.op = "do" /\ call.outcome = "ok" /\ call.id = 2
    /\ jobs = <<1>> /\ other_jobs = <<2>>
    /\ job[2].tags = {"a"} /\ job[2].at_time = 1 /\ job[2].cancel_after # None

\* C12 as stated: an until() that fails leaves the job as it was (cancel_after
\* included) and both schedulers' lists as they were.
C12_FailedUntilLeavesJobUnmodified ==
    (call.op = "until" /\ call.outcome # "ok") =>
        /\ job[call.id] = call.job0
        /\ ListsUntouched

\* Where C12 fails: until() raised the value error for a deadline in the
\* past, and the job's cancel_after is that deadline, not what it was.
C12_Witness ==
    /\ call.op = "until" /\ call.outcome = "ScheduleValueError"
    /\ call.arg.kind = "datetime"
    /\ call.arg.v < now
    /\ call.job0.cancel_after = None
    /\ job[call.id].cancel_after = call.arg.v
    /\ InSeq(jobs, call.id)

\* C14: do() on a job constructed with no scheduler raises ScheduleError, and
\* the job is in no scheduler's list afterwards; the lists are as they were.
C14_DoWithoutSchedulerFails ==
    (call.op = "do" /\ call.job0.scheduler = None) =>
        /\ call.outcome = "ScheduleError"
        /\ ListsUntouched
        /\ \A sch \in Schedulers : ~InSeq(JobsOf(sch), call.id)

\* C14's case: do() raised on a job without a scheduler, next to a job that
\* the default scheduler holds; the job is bound to its work, has a
\* next_run, and is registered nowhere.
C14_Witness ==
    /\ call.op = "do" /\ call.outcome = "ScheduleError"
    /\ job[call.id].scheduler = None
    /\ job[call.id].job_func /\ job[call.id].next_run # None
    /\ jobs # <<>>
    /\ ~InSeq(jobs, call.id) /\ ~InSeq(other_jobs, call.id)

\* The moment until()'s argument stands for, counted from the clock at the
\* call.
ResolvedDeadline ==
    IF call.arg.kind = "timedelta" THEN call.now0 + call.arg.v ELSE call.arg.v

\* C15 as stated: until(d), for an argument that resolves to a moment, fails
\* with the value error exactly when that moment is strictly before the
\* clock at the call; a moment equal to the clock or later is accepted and
\* stored in cancel_after; a timedelta resolves to now + timedelta, so that
\* a negative one fails and a zero one is accepted.
C15_UntilRejectsExactlyThePast ==
    (call.op = "until" /\ call.arg.kind \in {"datetime", "timedelta"}) =>
        /\ call.outcome \in {"ok", "ScheduleValueError"}
        /\ call.outcome = "ScheduleValueError" <=> ResolvedDeadline < call.now0
        /\ call.outcome = "ok" => job[call.id].cancel_after = ResolvedDeadline

\* Where C15 fails: until(timedelta(0)) raised the value error, the clock
\* having advanced between the read that resolved the deadline and the
\* read it was compared with.
C15_Witness ==
    /\ call.op = "until" /\ call.arg = [kind |-> "timedelta", v |-> 0]
    /\ call.outcome = "ScheduleValueError"
    /\ now > call.now0
    /\ job[call.id].cancel_after = call.now0

\* C16 as stated: every(number, unit) with a unit that is no alias raises
\* ScheduleValueError with a message that names the unit, makes no job and
\* leaves the schedulers' lists as they were.
C16_BadUnitIsAValueError ==
    (call.op = "every" /\ unit_kwarg(call.arg[3]) = "unsupported") =>
        /\ call.outcome = "ScheduleValueError"
        /\ \E i \in 1..Len(call.ret) : call.ret[i] = call.arg[3]
        /\ ~job[call.id].created
        /\ ListsUntouched

\* Where C16 fails: every(1, "sec") raised Exception itself, not
\* ScheduleValueError; no job was made and the lists are as they were.
C16_Witness ==
    /\ call.op = "every" /\ call.arg[3] = "sec"
    /\ call.outcome = "Exception"
    /\ call.ret = <<"time unit of", "sec", "not supported.">>
    /\ ~job[call.id].created
    /\ ListsUntouched
    /\ jobs # <<>>

\* The set of the arguments of the last call
ArgSet ==
    {call.arg[i] : i \in 1..Len(call.arg)}

\* C13 as stated: a tag() call whose arguments are all hashable succeeds and
\* leaves tags = (tags before) \cup (its arguments), so that tags is the set
\* of all the arguments passed, whatever their order and repetitions; a
\* tag() call with an argument that is not hashable raises TypeError and
\* leaves tags exactly as they were.
C13_TagIsUnionOrNothing ==
    call.op = "tag" =>
        IF \E x \in ArgSet : hash_raises(x)
        THEN /\ call.outcome = "TypeError"
             /\ job[call.id].tags = call.job0.tags
        ELSE /\ call.outcome = "ok"
             /\ job[call.id].tags = call.job0.tags \cup ArgSet

\* Where C13 fails: tag('a', ([],)) raised TypeError, and 'a', which was
\* not a tag of the job before, is one now.
C13_Witness ==
    /\ call.op = "tag" /\ call.arg = <<"a", "tuple_of_list">>
    /\ call.outcome = "TypeError"
    /\ "a" \notin call.job0.tags
    /\ job[call.id].tags = call.job0.tags \cup {"a"}

\* seg is empty or is <digits><letter>
IsGroup(seg, letter) ==
    \/ seg = <<>>
    \/ /\ Len(seg) >= 2
       /\ seg[Len(seg)] = letter
       /\ \A i \in 1..(Len(seg) - 1) : seg[i] \in Digits

\* The ways to cut str into an hours, a minutes and a seconds group
Cuts(str) ==
    {c \in (0..Len(str)) \X (0..Len(str)) :
        /\ c[1] <= c[2]
        /\ IsGroup(SubSeq(str, 1, c[1]), "h")
        /\ IsGroup(SubSeq(str, c[1] + 1, c[2]), "m")
        /\ IsGroup(SubSeq(str, c[2] + 1, Len(str)), "s")}

\* The number a group stands for, 0 for an empty one
RECURSIVE Decimal(_)
Decimal(digits) ==
    IF digits = <<>> THEN 0
    ELSE 10 * Decimal(SubSeq(digits, 1, Len(digits) - 1))
            + DigitValue(digits[Len(digits)])

GroupValue(seg) ==
    IF seg = <<>> THEN 0 ELSE Decimal(SubSeq(seg, 1, Len(seg) - 1))

\* C17 as stated: at(s) succeeds exactly when s is an optional <digits>h,
\* an optional <digits>m and an optional <digits>s, in that order and with
\* nothing else, and then at_time = H hours + M minutes + S seconds, absent
\* components counting 0; otherwise it raises ScheduleValueError and at_time
\* is what it was.
C17_AtParsesHMS ==
    call.op = "at" =>
        IF Cuts(call.arg) # {}
        THEN /\ call.outcome = "ok"
             /\ \A c \in Cuts(call.arg) :
                    job[call.id].at_time =
                        3600 * GroupValue(SubSeq(call.arg, 1, c[1]))
                          + 60 * GroupValue(SubSeq(call.arg, c[1] + 1, c[2]))
                          + GroupValue(SubSeq(call.arg, c[2] + 1, Len(call.arg)))
        ELSE /\ call.outcome = "ScheduleValueError"
             /\ job[call.id].at_time = call.job0.at_time

\* Where C17 fails: at("1h\n") succeeded and set at_time to one hour,
\* although a newline follows the hours.
C17_Witness ==
    /\ call.op = "at" /\ call.arg = <<"1", "h", "\n">>
    /\ call.outcome = "ok"
    /\ call.job0.at_time = None
    /\ job[call.id].at_time = 3600

\* ------------------------------------------ the claims on the registry calls

\* C18: clear(tag) leaves in Scheduler.jobs exactly the jobs whose tags do
\* not hold tag, in the order they had; clear() leaves it empty; neither
\* changes a field of any job.
C18_ClearRemovesTheTagged ==
    call.op = "clear" =>
        /\ call.arg = NoTag => jobs = <<>>
        /\ call.arg # NoTag =>
               jobs = SelectSeq(call.jobs0, LAMBDA x : call.arg \notin call.job0[x].tags)
        /\ job = call.job0
        /\ other_jobs = call.other0

\* C18's case: of three registered jobs, clear("a") removed the middle one,
\* the only one tagged "a", and kept the other two, one of them tagged "b",
\* in their order.
C18_Witness ==
    /\ call.op = "clear" /\ call.arg = "a"
    /\ call.jobs0 = <<1, 2, 3>>
    /\ jobs = <<1, 3>>
    /\ job[2].tags = {"a"} /\ job[3].tags = {"b"}

\* C19: cancel_job(job) raises nothing; it takes that job, and no other, out
\* of Scheduler.jobs and keeps the others in their order; when the job is
\* not in the list the list is as it was; no job's fields change.
C19_CancelJobRemovesThatJob ==
    call.op = "cancel_job" =>
        /\ call.outcome = "ok"
        /\ jobs = SelectSeq(call.jobs0, LAMBDA x : x # call.id)
        /\ ~InSeq(call.jobs0, call.id) => jobs = call.jobs0
        /\ job = call.job0
        /\ other_jobs = call.other0

\* C19's case: three registered jobs with the same fields; cancel_job of
\* the second removed the second.
C19_Witness ==
    /\ call.op = "cancel_job" /\ call.id = 2
    /\ call.jobs0 = <<1, 2, 3>>
    /\ job[1] = job[2] /\ job[2] = job[3]
    /\ jobs = <<1, 3>>

\* What get_jobs() returned and left alone, and what deleting from the
\* returned list left alone.
C20_GetJobsReturnsACopy ==
    /\ call.op = "get_jobs" =>
           /\ call.arg = NoTag => call.ret = call.jobs0
           /\ call.arg # NoTag =>
                  call.ret = SelectSeq(call.jobs0, LAMBDA x : call.arg \in call.job0[x].tags)
           /\ jobs = call.jobs0 /\ job = call.job0 /\ other_jobs = call.other0
    /\ call.op = "mutate_returned" =>
           /\ jobs = call.jobs0 /\ job = call.job0 /\ other_jobs = call.other0
           /\ Seen(returned) = Tail(call.ret)

\* A step of any other call leaves the returned list as its holder sees it.
C20_SnapshotKeepsItsValue ==
    call'.op \notin {"get_jobs", "mutate_returned"} => Seen(returned)' = Seen(returned)

\* C20: get_jobs() returns the registered jobs in registration order, and
\* get_jobs(tag) those of them whose tags hold tag; it changes neither the
\* scheduler nor a job; the list returned is the caller's own: deleting
\* from it leaves Scheduler.jobs as it was, and later registrations,
\* cancellations and clears leave the returned list as it was.
C20_GetJobsSnapshot ==
    [](C20_GetJobsReturnsACopy) /\ [][C20_SnapshotKeepsItsValue]_vars

\* C20's case: get_jobs() returned the two registered jobs; a third job was
\* then registered and the first cancelled; the caller's list still holds
\* the first two.
C20_Witness ==
    /\ call.op = "cancel_job" /\ call.id = 1
    /\ returned = [same_object |-> FALSE, list |-> <<1, 2>>]
    /\ jobs = <<2, 3>>

\* ----------------------------------------- the claims on run_all and queries

\* C21: a call of run_all() calls run() on the jobs that were registered
\* when it started, in registration order, each once, due or not (the call
\* works through this order unless a work raises: C7); each run follows the
\* protocol of run_pending: a work that is invoked and returns leaves
\* last_run at the clock and next_run one period and offset later, and a
\* run that returns the cancellation signal takes the job out of the list,
\* any other leaves the list as the work left it.
C21_RunAllRunsEveryJob ==
    mode = "run_all" =>
        /\ Plan = startJobs
        /\ \A j \in JobIds : RunsOf(j) <= 1
        /\ (batch = <<>> /\ ~exc) =>
               \A i \in 1..Len(startJobs) : RunsOf(startJobs[i]) = 1
        /\ (LastReturned /\ last.invoked) =>
               /\ LastJob.last_run = last.done
               /\ LastJob.next_run = last.done + LastJob.period + at_offset(LastJob)
        /\ LastReturned =>
               jobs = IF last.ret \in CancelSignals
                      THEN WithoutJob(last.worked, last.id) ELSE last.worked

\* C21's case: a finished run_all() that ran two jobs in registration
\* order, the work of a job that was not due included, and removed the job
\* that returned the cancellation signal.
C21_Witness ==
    /\ mode = "run_all" /\ batch = <<>> /\ ~exc
    /\ startJobs = <<1, 2>> /\ RanIds = <<1, 2>>
    /\ ran[1].invoked /\ ran[2].invoked
    /\ startJob[1].next_run > startNow
    /\ startJob[2].next_run > startNow
    /\ last.ret = "CancelJobInstance"
    /\ jobs = <<1>>

Registered ==
    {jobs[i] : i \in 1..Len(jobs)}

Least(S) ==
    CHOOSE x \in S : \A y \in S : x <= y

\* C22: in every state Scheduler.next_run is the least next_run of the
\* registered jobs, and it is absent exactly when no job is registered.
C22_NextRunIsTheMinimum ==
    /\ (next_run(jobs) = None) <=> (jobs = <<>>)
    /\ jobs # <<>> =>
           next_run(jobs) = Least({job[j].next_run : j \in Registered})

\* C22's case: two jobs are registered and the earliest next_run is the
\* second job's, not the first's.
C22_Witness ==
    /\ Len(jobs) = 2
    /\ next_run(jobs) = job[jobs[2]].next_run
    /\ next_run(jobs) < job[jobs[1]].next_run

\* C23: idle_seconds is absent exactly when no job is registered;
\* otherwise it is the least next_run minus the clock, negative exactly
\* when a registered job's next_run is before the clock, and at most zero
\* exactly when run_pending() at this clock value has a job to run.
C23_IdleSeconds ==
    LET idle == idle_seconds(jobs, now) IN
    /\ idle.absent <=> (jobs = <<>>)
    /\ jobs # <<>> =>
           /\ idle.seconds = Least({job[j].next_run : j \in Registered}) - now
           /\ (idle.seconds < 0) <=> (\E j \in Registered : job[j].next_run < now)
           /\ (idle.seconds <= 0) <=> (runnable_jobs # <<>>)

\* C23's case: two jobs are registered, the second is overdue and the
\* first is not, and idle_seconds is negative.
C23_Witness ==
    /\ Len(jobs) = 2
    /\ job[jobs[2]].next_run < now
    /\ job[jobs[1]].next_run > now
    /\ idle_seconds(jobs, now).seconds < 0
    /\ ~idle_seconds(jobs, now).absent

\* ------------------------------- the claims on calls after the first do()

Count(s, j) ==
    Cardinality({i \in 1..Len(s) : s[i] = j})

\* C24: a job whose work is bound and that is not in the list has been
\* removed; no step puts a removed job back into the list, and no step
\* unbinds a job's work.
C24_RemovedIsTerminal ==
    [][\A j \in JobIds :
          /\ (job[j].job_func /\ ~InSeq(jobs, j)) => ~InSeq(jobs', j)
          /\ job[j].job_func => job'[j].job_func]_vars

\* C24's case: do() was called on a job that had been removed, and the job
\* was in the list when the call returned.
C24_Witness ==
    /\ call.op = "do"
    /\ call.outcome = "ok"
    /\ call.job0.job_func
    /\ ~InSeq(call.jobs0, call.id)
    /\ InSeq(call.ret[2], call.id)

\* C25: a do() on a job whose work is bound leaves the job's fields and the
\* list as they were; every job occurs at most once in the list, and a call
\* of run_pending() runs a job at most once.
C25_WorkBoundOnce ==
    /\ (call.op = "do" /\ call.job0.job_func) =>
           call.ret = <<call.job0, call.jobs0>>
    /\ \A j \in JobIds : Count(jobs, j) <= 1
    /\ \A j \in JobIds : RunsOf(j) <= 1

\* C25's case: a registered job was given to do() a second time, it is in
\* the list twice, and one call of run_pending() has invoked its work twice.
C25_Witness ==
    /\ mode = "run_pending"
    /\ Count(startJobs, 1) = 2
    /\ RunsOf(1) = 2
    /\ ran[1].invoked /\ ran[2].invoked
    /\ call.op = "do" /\ InSeq(call.jobs0, call.id)

\* C26: a registered job that has run has next_run one period and offset
\* after its last run, with the offset its at_time gives now; and an at()
\* on a registered job leaves next_run moved by the change of the offset.
C26_NextRunFollowsAtTime ==
    /\ \A j \in Registered :
           job[j].last_run # None =>
               job[j].next_run = job[j].last_run + job[j].period + at_offset(job[j])
    /\ (call.op = "at" /\ call.job0.job_func /\ InSeq(call.jobs0, call.id)) =>
           call.ret[1].next_run =
               (call.job0.next_run - at_offset(call.job0)) + at_offset(call.ret[1])

\* C26's case: at() was called on a registered job, changed its offset and
\* left next_run as it was.
C26_Witness ==
    /\ call.op = "at"
    /\ InSeq(call.jobs0, call.id)
    /\ at_offset(call.ret[1]) # at_offset(call.job0)
    /\ call.ret[1].next_run = call.job0.next_run
    /\ InSeq(jobs, call.id)

\* ------------------------------------------------- the claim on the frame

\* The step is one _run_job.
RunJobStep ==
    Len(ran') = Len(ran) + 1

\* C27: the list changes in four ways only: do() appends the job it binds;
\* clear() empties it; cancel_job() takes one job out; and a run takes out
\* the job that returned the cancellation signal, after what the work's
\* own cancel_job call took out.  The start of run_pending() with its sort
\* and of run_all(), their return, every(), at(), until() and a run that
\* returns no signal leave the list as it was.
C27_ListChangesOnlyBy ==
    [][/\ \/ jobs' = jobs
          \/ /\ mode = "idle" /\ mode' = "idle"
             /\ \E j \in JobIds :
                    /\ ~job[j].job_func /\ job'[j].job_func
                    /\ jobs' = Append(jobs, j)
          \/ /\ mode = "idle" /\ mode' = "idle" /\ job' = job
             /\ jobs' = <<>>
          \/ /\ mode = "idle" /\ mode' = "idle" /\ job' = job
             /\ \E j \in Registered : jobs' = Remove(jobs, j)
          \/ /\ RunJobStep
             /\ \/ last'.worked = jobs
                \/ /\ last'.invoked
                   /\ \E k \in Registered : last'.worked = Remove(jobs, k)
             /\ jobs' = IF last'.ret \in CancelSignals
                        THEN WithoutJob(last'.worked, last'.id)
                        ELSE last'.worked
       /\ (mode = "idle" /\ mode' # "idle") => jobs' = jobs
       /\ (mode # "idle" /\ mode' = "idle") => jobs' = jobs
       /\ (RunJobStep /\ last'.ret \notin CancelSignals /\ last'.worked = jobs) =>
              jobs' = jobs
       /\ (mode = "idle" /\ mode' = "idle" /\ job' # job
            /\ \A j \in JobIds : job'[j].job_func = job[j].job_func) =>
              jobs' = jobs]_vars

\* C27's case: run_pending() has started on two due jobs that it runs in
\* the other order than the list holds them, and the list is as it was.
C27_Witness ==
    /\ mode = "run_pending"
    /\ ran = <<>>
    /\ Len(batch) = 2
    /\ jobs = <<batch[2], batch[1]>>
    /\ jobs = startJobs

\* ------------------------------------------------- the claim on the units

\* The seconds of one unit, by the name of its group.
UnitSeconds(unit) ==
    LET minute == 60
        hour == 60 * minute
        day == 24 * hour
        week == 7 * day
    IN  CASE unit \in {"w", "week", "weeks"} -> week
          [] unit \in {"d", "day", "days"} -> day
          [] unit \in {"h", "hour", "hours"} -> hour
          [] unit \in {"m", "minute", "minutes"} -> minute
          [] unit \in {"s", "second", "seconds"} -> 1
          [] OTHER -> 0

\* C28: every(n, u) with u one of the fifteen aliases returns a new job
\* whose period is n times the seconds of u's unit, that is in no list,
\* has no work, no next_run, last_run or cancel_after, and no tags; the
\* call leaves the lists as they were.
C28_AliasesDenoteThePeriod ==
    (call.op = "every" /\ UnitSeconds(call.arg[3]) # 0) =>
        LET made == job[call.id] IN
        /\ call.outcome = "ok"
        /\ made.created /\ ~call.job0.created
        /\ made.period = call.arg[2] * UnitSeconds(call.arg[3])
        /\ made.next_run = None
        /\ made.last_run = None
        /\ made.cancel_after = None
        /\ made.tags = {}
        /\ ~made.job_func
        /\ made.scheduler = call.arg[1]
        /\ ~InSeq(jobs, call.id) /\ ~InSeq(other_jobs, call.id)
        /\ ListsUntouched

\* C28's case: every(2, "weeks") made a job with a period of 1209600
\* seconds after every(3, "h") had made one with a period of 10800.
C28_Witness ==
    /\ call.op = "every"
    /\ call.id = 2
    /\ call.arg[2] = 2 /\ call.arg[3] = "weeks"
    /\ job[2].period = 1209600
    /\ job[1].period = 10800
    /\ InSeq(jobs, 1) /\ ~InSeq(jobs, 2)

\* ------------------------------------------- the claim on two driver threads

\* No driver is inside run_pending().
Quiescent ==
    \A d \in Drivers : ~drivers.active[d]

\* C29: at one clock value a job's work is invoked at most twice, and
\* twice only if two calls of run_pending() overlapped; once the calls
\* that selected a job have returned, its work has been invoked, so with
\* calls that do not overlap a due job's work is invoked exactly once.
\* That two overlapping calls do invoke a work twice is C29_Witness.
C29_TwiceOnlyByOverlap ==
    \A j \in JobIds :
        /\ drivers.invoked[j] <= 2
        /\ drivers.invoked[j] = 2 => drivers.overlapped
        /\ (Quiescent /\ j \in drivers.selected) => drivers.invoked[j] >= 1
        /\ drivers.invoked[j] >= 1 => j \in drivers.selected

\* C29's case: two calls overlapped, both have returned, and the work of a
\* job that is in the list once was invoked twice at this clock value.
C29_Witness ==
    /\ Quiescent
    /\ drivers.overlapped
    /\ drivers.invoked[1] = 2
    /\ Count(jobs, 1) = 1
    /\ job[1].last_run = now

\* --------------------------------------------- the claim on a raising work

\* C30: a _run_job whose work raises leaves the job's fields as they were
\* and the list as the work left it, so in run_pending() the job is still
\* due; the exception ends the call with the rest of its jobs not run and
\* changes nothing on its way out; and a run_pending() that starts calls
\* run() on every registered job that is due, this one included (its work
\* is invoked unless its deadline has passed: C2).
C30_RaiseLeavesJobDue ==
    [][/\ (RunJobStep /\ last'.work = "raise") =>
              /\ job' = job
              /\ jobs' = last'.worked
              /\ InSeq(jobs, last'.id) /\ last'.worked = jobs =>
                     /\ jobs' = jobs
                     /\ mode = "run_pending" => should_run(job'[last'.id], now')
              /\ exc'
              /\ batch' = Tail(batch)
       /\ exc =>
              /\ ~RunJobStep
              /\ mode' = "idle"
              /\ job' = job /\ jobs' = jobs /\ now' = now
       /\ (mode = "idle" /\ mode' = "run_pending") =>
              /\ \A j \in Registered :
                     should_run(job[j], now) => InSeq(batch', j)
              /\ batch' = sorted(runnable_jobs)]_vars

\* C30's case: in run_pending() the work of the first of two due jobs has
\* raised; the job's fields are those it had when the call started, it is
\* registered where it was and still due, and the second job was not run.
C30_Witness ==
    /\ mode = "run_pending"
    /\ exc
    /\ last.work = "raise"
    /\ Len(startJobs) = 2
    /\ jobs = startJobs
    /\ job[last.id] = startJob[last.id]
    /\ should_run(job[last.id], now)
    /\ Len(ran) = 1 /\ Len(batch) = 1
    /\ should_run(job[batch[1]], now)

\* ------------------------------------ the claims on the list of one call

PlanSet ==
    {Plan[i] : i \in 1..Len(Plan)}

\* C31: the jobs a call runs are fixed when it starts: for run_pending()
\* the jobs registered and due then, each once; for run_all() the list as
\* it was then.  A job registered by a work during the call, or due only
\* since a work let the clock advance, is not among them; and each of them
\* is run when its turn comes, in Scheduler.jobs or not: its work is
\* invoked, last_run recorded and next_run computed.
C31_BatchIsFixedAtStart ==
    /\ mode = "run_pending" =>
           /\ PlanSet = DueAtStart
           /\ Len(Plan) = Cardinality(DueAtStart)
    /\ mode = "run_all" => Plan = startJobs
    /\ (mode # "idle" /\ last.id # 0) =>
           /\ last.invoked
           /\ LastJob.last_run = last.done
           /\ LastJob.next_run = last.done + LastJob.period + at_offset(LastJob)

\* C31's case: in run_pending() the work of the first due job emptied the
\* list, and the second due job, no longer registered, was run all the
\* same: its work was invoked and its last_run and next_run were set.
C31_Witness ==
    /\ mode = "run_pending"
    /\ Len(ran) = 2
    /\ ~last.listed
    /\ last.invoked
    /\ ~InSeq(jobs, last.id)
    /\ LastJob.last_run = last.done
    /\ LastJob.last_run # startJob[last.id].last_run
    /\ LastJob.next_run > startJob[last.id].next_run

\* --------------------------------------------- the claims on the deadline

\* C32: no registered job that has a deadline has its next_run after it.
C32_NextRunWithinDeadline ==
    \A j \in Registered :
        job[j].cancel_after # None => job[j].next_run <= job[j].cancel_after

\* C32's case: between calls a job is registered whose deadline has not
\* passed (so until() accepted it) and whose next_run is after the
\* deadline.
C32_Witness ==
    /\ mode = "idle"
    /\ InSeq(jobs, 1)
    /\ job[1].cancel_after # None
    /\ job[1].cancel_after >= now
    /\ job[1].next_run > job[1].cancel_after
    /\ job[1].last_run = None

\* C33: with the clock advancing and run_pending() called again and again,
\* a registered job that has a deadline is removed in the end; a removed
\* job's work is not invoked again; and a job leaves the list only through
\* cancel_job or clear() between calls, or through its own run, which for
\* a job with no deadline is one whose work returned the cancellation
\* signal.
C33_DeadlineJobsAreRemoved ==
    /\ \A j \in ApiJobs :
           (InSeq(jobs, j) /\ job[j].cancel_after # None) ~> ~InSeq(jobs, j)
    /\ [][\A j \in ApiJobs :
              /\ Removed(j) => ~WorkInvokedStep(j)
              /\ (InSeq(jobs, j) /\ ~InSeq(jobs', j)) =>
                     \/ mode = "idle" /\ mode' = "idle" /\ job' = job
                     \/ /\ RunJobStep
                        /\ last'.id = j
                        /\ last'.ret \in CancelSignals
                        /\ job[j].cancel_after = None =>
                               last'.work \in CancelSignals]_vars

\* C33's case: the clock has passed the deadline of a registered job that
\* had run before, and run_pending() removed the job without invoking its
\* work.
C33_Witness ==
    /\ mode = "run_pending"
    /\ last.id # 0
    /\ ~last.invoked
    /\ last.ret = "CancelJobClass"
    /\ now > LastDeadline
    /\ LastJob.last_run # None
    /\ InSeq(startJobs, last.id)
    /\ ~InSeq(jobs, last.id)

\* ----------------------------------------- the claim on the end of a call

\* C34: a call of run_pending() runs a job at most once, and only jobs
\* that were registered when it started, so its runs and the jobs it still
\* has to run never number more than the list at its start; and the call
\* ends.  This holds with periods that are zero or negative.
C34_RunPendingTerminates ==
    /\ [](mode = "run_pending" =>
             /\ \A j \in JobIds :
                    /\ RunsOf(j) <= 1
                    /\ RunsOf(j) = 1 => InSeq(startJobs, j)
             /\ Len(ran) + Len(batch) <= Len(startJobs))
    /\ (mode = "run_pending") ~> (mode = "idle")

\* C34's case: run_pending() has run two jobs, one of period zero and one
\* of a negative period, once each; both are due again at once and the
\* call has nothing left to run.
C34_Witness ==
    /\ mode = "run_pending"
    /\ batch = <<>>
    /\ Len(ran) = 2
    /\ RunsOf(1) = 1 /\ RunsOf(2) = 1
    /\ ran[1].invoked /\ ran[2].invoked
    /\ {job[1].period, job[2].period} = {-1, 0}
    /\ InSeq(jobs, 1) /\ InSeq(jobs, 2)
    /\ should_run(job[1], now) /\ should_run(job[2], now)

\* ------------------------------------------- the claim on the skipped run

\* C35: a _run_job that does not invoke the work is one of a job whose
\* deadline the clock has passed; it leaves every field of every job and
\* the clock as they were, run() returns the cancellation signal, and the
\* list loses that job and nothing else.
C35_SkippedRunChangesNothing ==
    [][(RunJobStep /\ ~last'.invoked) =>
          /\ job[last'.id].cancel_after # None
          /\ now > job[last'.id].cancel_after
          /\ job' = job
          /\ now' = now
          /\ last'.ret \in CancelSignals
          /\ jobs' = WithoutJob(jobs, last'.id)]_vars

\* C35's case: a registered job that had run before was found overdue by
\* run_pending(): it is out of the list, and its last_run and next_run are
\* those it had when the call started.
C35_Witness ==
    /\ mode = "run_pending"
    /\ last.id # 0
    /\ ~last.invoked
    /\ InSeq(startJobs, last.id)
    /\ ~InSeq(jobs, last.id)
    /\ LastJob = startJob[last.id]
    /\ LastJob.last_run # None
    /\ LastJob.last_run < now
    /\ Len(jobs) = Len(startJobs) - 1

\* ------------------------------------- the claim on the registered jobs' fields

\* C36: every job in a scheduler's list has a next_run and a bound work;
\* and a job on which do() raised for lack of a scheduler has both as well,
\* though it is in no list.
C36_RegisteredJobsAreScheduled ==
    /\ \A sch \in Schedulers : \A i \in 1..Len(JobsOf(sch)) :
           LET jr == job[JobsOf(sch)[i]] IN
           /\ jr.created
           /\ jr.job_func
           /\ jr.next_run # None
    /\ (call.op = "do" /\ call.outcome = "ScheduleError") =>
           /\ job[call.id].job_func
           /\ job[call.id].next_run # None
           /\ \A sch \in Schedulers : ~InSeq(JobsOf(sch), call.id)

\* C36's case: the first job is registered with its next_run, and do() has
\* raised on the second, which has no scheduler: it is in no list and its
\* next_run is the clock of the call plus its period and offset.
C36_Witness ==
    /\ InSeq(jobs, 1)
    /\ job[1].next_run # None
    /\ call.op = "do" /\ call.outcome = "ScheduleError" /\ call.id = 2
    /\ ~call.job0.job_func /\ call.job0.next_run = None
    /\ job[2].job_func
    /\ job[2].next_run = call.now0 + job[2].period + at_offset(job[2])
    /\ ~InSeq(jobs, 2) /\ ~InSeq(other_jobs, 2)

\* ------------------------------------------------- the claim on last_run

\* This step is a run of job j whose work was invoked and returned.
CompletedRunStep(j) ==
    /\ RunJobStep
    /\ last'.id = j
    /\ last'.invoked
    /\ last'.work # "raise"

\* C37: no job has a last_run to begin with; last_run changes only in a
\* run whose work completed, which sets it to the clock; right after such
\* a run next_run is at least last_run plus period and offset, so with a
\* positive period and offset the job is not due then; and a
\* run_pending() that starts at the clock value of a job's last_run does
\* not select that job.
C37_LastRunMarksCompletedRuns ==
    /\ \A j \in JobIds : job[j].last_run = None
    /\ [][\A j \in JobIds :
              /\ job'[j].last_run # job[j].last_run => CompletedRunStep(j)
              /\ CompletedRunStep(j) =>
                     /\ job'[j].last_run = now'
                     /\ job'[j].next_run >=
                            job'[j].last_run + job'[j].period + at_offset(job'[j])
                     /\ job'[j].period + at_offset(job'[j]) > 0 =>
                            ~should_run(job'[j], now')
              /\ (/\ mode = "idle" /\ mode' = "run_pending"
                  /\ job[j].last_run = now
                  /\ job[j].period + at_offset(job[j]) > 0) =>
                     ~InSeq(batch', j)]_vars

\* C37's case: run_pending() has started at the clock value at which the
\* first job's run completed; the job is registered and is not selected,
\* while the second job, which never ran, is selected and has no last_run.
C37_Witness ==
    /\ mode = "run_pending"
    /\ ran = <<>>
    /\ jobs = <<1, 2>>
    /\ job[1].last_run = now
    /\ batch = <<2>>
    /\ job[2].last_run = None

\* --------------------------------------------- the claim on job isolation

\* The jobs whose fields this step changes.
ChangedJobs ==
    {j \in JobIds : job'[j] # job[j]}

\* C38: no step changes the fields of more than one job; a run changes at
\* most the job that is run, and takes out of the list that job, when
\* run() returned the cancellation signal, and no other; cancel_job takes
\* out one job; a tag() changes at most the job it is called on; and what
\* stays in the list stays in its order.
C38_JobsAreIsolated ==
    [][/\ Cardinality(ChangedJobs) <= 1
       /\ RunJobStep =>
              /\ ChangedJobs \subseteq {last'.id}
              /\ jobs' = IF last'.ret \in CancelSignals
                         THEN WithoutJob(jobs, last'.id) ELSE jobs
       /\ call' # call => ChangedJobs \subseteq {call'.id}
       /\ (~RunJobStep /\ Len(jobs') < Len(jobs)) =>
              /\ job' = job
              /\ \E j \in Registered : jobs' = WithoutJob(jobs, j)
              /\ Len(jobs') = Len(jobs) - 1]_vars

\* C38's case: of three registered jobs the second was run first by
\* run_pending() and returned the cancellation signal; the first and the
\* third, one of them tagged and with a deadline, are in the list in their
\* order with the fields they had when the call started.
C38_Witness ==
    /\ mode = "run_pending"
    /\ startJobs = <<1, 2, 3>>
    /\ RanIds = <<2>>
    /\ last.ret \in CancelSignals
    /\ last.invoked
    /\ jobs = <<1, 3>>
    /\ job[1] = startJob[1] /\ job[3] = startJob[3]
    /\ job[2] # startJob[2]
    /\ job[1].tags # {} /\ job[1].cancel_after # None
    /\ job[3].tags = {}

=============================================================================
